---- MODULE Spec2Model ----
(***************************************************************************)
(* Model of src/services/apiService.js of PopKing AI: the retrying HTTP    *)
(* invoker fetchWithRetry, the four service generators built on it, the    *)
(* PCM16-to-WAV encoder pcmToWav, and the text generation that the         *)
(* component of the same file inlines.                                     *)
(*                                                                         *)
(* JavaScript values are tagged records: every tag has its own payload     *)
(* field, so two values of different JavaScript types never compare a      *)
(* payload of one type with a payload of another.                          *)
(***************************************************************************)
EXTENDS Integers, Sequences, FiniteSets, TLC

VARIABLES
    gen,        \* the generator (or encoder) the modelled call runs
    pc,         \* position of the call: idle, fetching, sleeping, resolved, rejected, done
    retries,    \* fetchWithRetry's parameter `retries` of the innermost invocation
    requests,   \* number of fetch() calls issued so far
    trace,      \* the responses observed so far, one per fetch() call, in order
    sleeps,     \* the backoff delays (ms) slept so far, in order
    result,     \* the value fetchWithRetry resolved with
    err,        \* the error fetchWithRetry rejected with
    out,        \* what the generator did: pending, returned a value, threw
    pcm16,      \* the Int16Array handed to pcmToWav
    sampleRate, \* the sample rate handed to pcmToWav
    wav,        \* the bytes of the ArrayBuffer pcmToWav wrapped in a Blob
    args,       \* the arguments the generator was called with
    request,    \* the options object the generator hands to fetchWithRetry
    calls,      \* the fetchWithRetry calls of two generators in flight together
    uiChat,     \* the chat entry the text generation of the component builds
    pf,         \* one call of the component's performFetch
    app,        \* the state of the component App
    appWav      \* the bytes of the ArrayBuffer the component's pcmToWav wrapped

vars == <<gen, pc, retries, requests, trace, sleeps, result, err, out,
          pcm16, sampleRate, wav, args, request, calls, uiChat, pf, app, appWav>>

callVars == <<gen, pc, retries, requests, trace, sleeps, result, err, out>>
wavVars == <<pcm16, sampleRate, wav>>
requestVars == <<args, request>>
appVars == <<pf, app, appWav>>
otherVars == <<calls, uiChat, pf, app, appWav>>

(***************************************************************************)
(* JavaScript values                                                       *)
(***************************************************************************)
JUndef == [t |-> "undefined"]
JNull == [t |-> "null"]
JNum(n) == [t |-> "number", n |-> n]
JStr(s) == [t |-> "string", s |-> s]
JBool(b) == [t |-> "boolean", b |-> b]
JArr(a) == [t |-> "array", a |-> a]
JObj(o) == [t |-> "object", o |-> o]
\* a response body that is not JSON text: response.json() rejects on it
JInvalid == [t |-> "invalid"]

\* a thrown exception in place of a value
Thrown(name) == [t |-> "throw", e |-> name]
IsThrown(v) == v.t = "throw"

Nullish(v) == v.t \in {"undefined", "null"}

\* ToBoolean
Truthy(v) ==
    CASE v.t \in {"undefined", "null"} -> FALSE
      [] v.t = "number" -> v.n # 0
      [] v.t = "string" -> v.s # ""
      [] v.t = "boolean" -> v.b
      [] OTHER -> TRUE

\* v.f : a TypeError on null and undefined, undefined where there is no such property
Prop(v, f) ==
    CASE IsThrown(v) -> v
      [] Nullish(v) -> Thrown("TypeError")
      [] v.t = "object" -> IF f \in DOMAIN v.o THEN v.o[f] ELSE JUndef
      [] v.t = "array" /\ f = "length" -> JNum(Len(v.a))
      [] v.t = "string" /\ f = "length" -> JNum(Len(v.s))
      [] OTHER -> JUndef

\* v?.f
OptProp(v, f) == IF Nullish(v) THEN JUndef ELSE Prop(v, f)

\* v[0] : a TypeError on null and undefined
Idx0(v) ==
    CASE IsThrown(v) -> v
      [] Nullish(v) -> Thrown("TypeError")
      [] v.t = "array" -> IF Len(v.a) > 0 THEN v.a[1] ELSE JUndef
      [] v.t = "string" -> IF Len(v.s) > 0 THEN JStr(SubSeq(v.s, 1, 1)) ELSE JUndef
      [] v.t = "object" -> IF "0" \in DOMAIN v.o THEN v.o["0"] ELSE JUndef
      [] OTHER -> JUndef

\* v?.[0]
OptIdx0(v) == IF Nullish(v) THEN JUndef ELSE Idx0(v)

(***************************************************************************)
(* Strings and numbers                                                     *)
(***************************************************************************)
Digits == <<"0", "1", "2", "3", "4", "5", "6", "7", "8", "9">>
CharAt(s, i) == SubSeq(s, i, i)
IsDigit(c) == \E d \in 1..Len(Digits) : Digits[d] = c
DigitVal(c) == (CHOOSE d \in 1..Len(Digits) : Digits[d] = c) - 1

\* the length of the longest run of decimal digits that s has from position i on
RECURSIVE DigitRun(_, _)
DigitRun(s, i) ==
    IF i <= Len(s) /\ IsDigit(CharAt(s, i)) THEN 1 + DigitRun(s, i + 1) ELSE 0

\* the number that the decimal digits s[i .. i+n-1] spell
RECURSIVE DigitsValue(_, _, _)
DigitsValue(s, i, n) ==
    IF n = 0 THEN 0
    ELSE 10 * DigitsValue(s, i, n - 1) + DigitVal(CharAt(s, i + n - 1))

\* String.prototype.startsWith
StartsWith(s, p) == Len(s) >= Len(p) /\ SubSeq(s, 1, Len(p)) = p

\* the position of the first occurrence of p in s, 0 when there is none
IndexOf(s, p) ==
    LET hits == {i \in 1..(Len(s) - Len(p) + 1) : SubSeq(s, i, i + Len(p) - 1) = p}
    IN  IF hits = {} THEN 0 ELSE CHOOSE i \in hits : \A k \in hits : i <= k

NaN == [nan |-> TRUE, n |-> 0]
Num(n) == [nan |-> FALSE, n |-> n]

\* ToNumber, for the values the model's bodies hold (a string is a number when
\* it is empty or all decimal digits)
RECURSIVE ToNumber(_)
ToNumber(v) ==
    CASE v.t = "number" -> Num(v.n)
      [] v.t = "boolean" -> Num(IF v.b THEN 1 ELSE 0)
      [] v.t = "null" -> Num(0)
      [] v.t = "string" ->
           IF DigitRun(v.s, 1) = Len(v.s) THEN Num(DigitsValue(v.s, 1, Len(v.s))) ELSE NaN
      [] v.t = "array" ->
           IF Len(v.a) = 0 THEN Num(0)
           ELSE IF Len(v.a) = 1 /\ v.a[1].t \in {"number", "string"} THEN ToNumber(v.a[1])
           ELSE NaN
      [] OTHER -> NaN

\* v > 0
GreaterThanZero(v) == LET x == ToNumber(v) IN ~x.nan /\ x.n > 0

\* ToString, as template literals apply it
RECURSIVE JsToString(_)
RECURSIVE JoinFrom(_, _)
JsToString(v) ==
    CASE v.t = "string" -> v.s
      [] v.t = "number" -> ToString(v.n)
      [] v.t = "boolean" -> IF v.b THEN "true" ELSE "false"
      [] v.t = "null" -> "null"
      [] v.t = "undefined" -> "undefined"
      [] v.t = "array" -> JoinFrom(v.a, 1)
      [] OTHER -> "[object Object]"
\* Array.prototype.join: null and undefined elements join as empty strings
JoinFrom(a, i) ==
    IF i > Len(a) THEN ""
    ELSE (IF Nullish(a[i]) THEN "" ELSE JsToString(a[i]))
         \o (IF i < Len(a) THEN "," ELSE "")
         \o JoinFrom(a, i + 1)

(***************************************************************************)
(* JSON.parse, on the JSON texts without escapes, fractions and exponents  *)
(***************************************************************************)
Parsed(v, i) == [ok |-> TRUE, v |-> v, i |-> i]
ParseFail == [ok |-> FALSE, v |-> JUndef, i |-> 0]

RECURSIVE SkipWs(_, _)
SkipWs(s, i) == IF i <= Len(s) /\ CharAt(s, i) = " " THEN SkipWs(s, i + 1) ELSE i

\* s has the word w at position i
HasAt(s, i, w) == i + Len(w) - 1 <= Len(s) /\ SubSeq(s, i, i + Len(w) - 1) = w

\* a string literal that opens at position i: up to the next quote
ParseString(s, i) ==
    LET close == {j \in (i + 1)..Len(s) : CharAt(s, j) = "\""}
    IN  IF ~HasAt(s, i, "\"") \/ close = {} THEN ParseFail
        ELSE LET j == CHOOSE k \in close : \A m \in close : k <= m
             IN  Parsed(JStr(SubSeq(s, i + 1, j - 1)), j + 1)

\* an integer literal at position i (no leading zeros)
ParseNumber(s, i) ==
    LET neg == HasAt(s, i, "-")
        d == IF neg THEN i + 1 ELSE i
        n == DigitRun(s, d)
    IN  IF n = 0 \/ (n > 1 /\ CharAt(s, d) = "0") THEN ParseFail
        ELSE Parsed(JNum((IF neg THEN -1 ELSE 1) * DigitsValue(s, d, n)), d + n)

RECURSIVE ParseValue(_, _)
RECURSIVE ParseElements(_, _, _)
RECURSIVE ParseMembers(_, _, _)
ParseValue(s, i0) ==
    LET i == SkipWs(s, i0)
    IN  CASE i > Len(s) -> ParseFail
          [] HasAt(s, i, "null") -> Parsed(JNull, i + 4)
          [] HasAt(s, i, "true") -> Parsed(JBool(TRUE), i + 4)
          [] HasAt(s, i, "false") -> Parsed(JBool(FALSE), i + 5)
          [] HasAt(s, i, "\"") -> ParseString(s, i)
          [] HasAt(s, i, "[") ->
               IF HasAt(s, SkipWs(s, i + 1), "]")
               THEN Parsed(JArr(<<>>), SkipWs(s, i + 1) + 1)
               ELSE ParseElements(s, i + 1, <<>>)
          [] HasAt(s, i, "{") ->
               IF HasAt(s, SkipWs(s, i + 1), "}")
               THEN Parsed(JObj(<<>>), SkipWs(s, i + 1) + 1)
               ELSE ParseMembers(s, i + 1, <<>>)
          [] OTHER -> ParseNumber(s, i)
\* the elements of an array from position i on, acc holding those before
ParseElements(s, i, acc) ==
    LET e == ParseValue(s, i)
        j == SkipWs(s, e.i)
    IN  CASE ~e.ok -> ParseFail
          [] HasAt(s, j, ",") -> ParseElements(s, j + 1, Append(acc, e.v))
          [] HasAt(s, j, "]") -> Parsed(JArr(Append(acc, e.v)), j + 1)
          [] OTHER -> ParseFail
\* the members of an object from position i on: a repeated key keeps its last value
ParseMembers(s, i, acc) ==
    LET k == ParseString(s, SkipWs(s, i))
        c == SkipWs(s, k.i)
        e == ParseValue(s, c + 1)
        j == SkipWs(s, e.i)
        members == (k.v.s :> e.v) @@ acc
    IN  CASE ~k.ok \/ ~HasAt(s, c, ":") -> ParseFail
          [] ~e.ok -> ParseFail
          [] HasAt(s, j, ",") -> ParseMembers(s, j + 1, members)
          [] HasAt(s, j, "}") -> Parsed(JObj(members), j + 1)
          [] OTHER -> ParseFail

\* JSON.parse(v): v is turned into a string first; a SyntaxError on anything else
\* than one JSON text
JSONparse(v) ==
    LET s == JsToString(v)
        r == ParseValue(s, 1)
    IN  IF r.ok /\ SkipWs(s, r.i) > Len(s) THEN r.v ELSE Thrown("SyntaxError")

(***************************************************************************)
(* JSON.stringify of the object literals the generators build              *)
(***************************************************************************)
\* an object literal: its properties in the order of the source
Member(k, v) == [k |-> k, v |-> v]
JRec(members) == [t |-> "record", m |-> members]

\* the characters of s from position i on, quote and backslash escaped
RECURSIVE EscapeFrom(_, _)
EscapeFrom(s, i) ==
    LET special == {j \in i..Len(s) : CharAt(s, j) \in {"\"", "\\"}}
    IN  IF special = {} THEN SubSeq(s, i, Len(s))
        ELSE LET j == CHOOSE k \in special : \A m \in special : k <= m
             IN  SubSeq(s, i, j - 1) \o "\\" \o CharAt(s, j) \o EscapeFrom(s, j + 1)
Quote(s) == "\"" \o EscapeFrom(s, 1) \o "\""

\* the JSON text of a value: a property whose value is undefined is left out, an
\* undefined array element is written null
RECURSIVE Serialize(_)
RECURSIVE SerializeElements(_, _)
RECURSIVE SerializeMembers(_, _, _)
Serialize(v) ==
    CASE v.t = "string" -> Quote(v.s)
      [] v.t = "number" -> ToString(v.n)
      [] v.t = "boolean" -> IF v.b THEN "true" ELSE "false"
      [] v.t = "array" -> "[" \o SerializeElements(v.a, 1) \o "]"
      [] v.t = "record" -> "{" \o SerializeMembers(v.m, 1, TRUE) \o "}"
      [] OTHER -> "null"
SerializeElements(a, i) ==
    IF i > Len(a) THEN ""
    ELSE Serialize(a[i]) \o (IF i < Len(a) THEN "," ELSE "")
         \o SerializeElements(a, i + 1)
SerializeMembers(m, i, first) ==
    IF i > Len(m) THEN ""
    ELSE IF m[i].v.t = "undefined" THEN SerializeMembers(m, i + 1, first)
    ELSE (IF first THEN "" ELSE ",") \o Quote(m[i].k) \o ":" \o Serialize(m[i].v)
         \o SerializeMembers(m, i + 1, FALSE)

\* JSON.stringify(v)
JSONstringify(v) == IF v.t = "undefined" THEN JUndef ELSE JStr(Serialize(v))

(***************************************************************************)
(* base64ToArrayBuffer and pcmToWav                                        *)
(***************************************************************************)
Base64Alphabet == "ABCDEFGHIJKLMNOPQRSTUVWXYZabcdefghijklmnopqrstuvwxyz0123456789+/"
Base64Value(c) == IndexOf(Base64Alphabet, c) - 1

RECURSIVE StripSpaces(_)
StripSpaces(s) ==
    IF s = "" THEN ""
    ELSE IF CharAt(s, 1) = " " THEN StripSpaces(SubSeq(s, 2, Len(s)))
    ELSE CharAt(s, 1) \o StripSpaces(SubSeq(s, 2, Len(s)))

\* the padding atob removes: one or two trailing "=" of a text of 4k characters
StripPadding(s) ==
    IF Len(s) > 0 /\ Len(s) % 4 = 0 /\ CharAt(s, Len(s)) = "="
    THEN IF CharAt(s, Len(s) - 1) = "=" THEN SubSeq(s, 1, Len(s) - 2)
         ELSE SubSeq(s, 1, Len(s) - 1)
    ELSE s

\* byte k (from 0) of the data the base64 characters d spell
Base64Byte(d, k) ==
    LET g == 4 * (k \div 3)
        v(j) == Base64Value(CharAt(d, g + j))
    IN  CASE k % 3 = 0 -> v(1) * 4 + (v(2) \div 16)
          [] k % 3 = 1 -> (v(2) % 16) * 16 + (v(3) \div 4)
          [] OTHER -> (v(3) % 4) * 64 + v(4)

\* atob(v): the bytes (char codes of the binary string), or an InvalidCharacterError
atob(v) ==
    LET d == StripPadding(StripSpaces(JsToString(v)))
    IN  IF Len(d) % 4 = 1 \/ \E i \in 1..Len(d) : IndexOf(Base64Alphabet, CharAt(d, i)) = 0
        THEN Thrown("InvalidCharacterError")
        ELSE JArr([k \in 1..((Len(d) * 6) \div 8) |-> Base64Byte(d, k - 1)])

\* lines 30-38: the bytes of the ArrayBuffer
base64ToArrayBuffer(v) == atob(v)

\* a signed 16-bit value from its two's complement
ToInt16(u) == IF u % 65536 >= 32768 THEN (u % 65536) - 65536 ELSE u % 65536

\* new Int16Array(buffer): a RangeError unless the byte length is a multiple of 2;
\* the samples in the byte order of the platform, little-endian
Int16ArrayOf(bytes) ==
    IF Len(bytes) % 2 # 0 THEN Thrown("RangeError")
    ELSE JArr([i \in 1..(Len(bytes) \div 2) |->
                  ToInt16(bytes[2 * i - 1] + 256 * bytes[2 * i])])

\* String.prototype.charCodeAt for the characters of the chunk identifiers
charCode(c) ==
    CASE c = "R" -> 82 [] c = "I" -> 73 [] c = "F" -> 70 [] c = "W" -> 87
      [] c = "A" -> 65 [] c = "V" -> 86 [] c = "E" -> 69 [] c = "f" -> 102
      [] c = "m" -> 109 [] c = "t" -> 116 [] c = " " -> 32 [] c = "d" -> 100
      [] c = "a" -> 97

\* the buffer with bytes bs written from byte offset off on
WriteBytes(buf, off, bs) ==
    [i \in 1..Len(buf) |->
        IF i - 1 >= off /\ i - 1 < off + Len(bs) THEN bs[i - off] ELSE buf[i]]

\* DataView.prototype.setUint8(off, v)
setUint8(buf, off, v) == WriteBytes(buf, off, <<v % 256>>)
\* DataView.prototype.setUint16(off, v, true): little-endian
setUint16(buf, off, v) == WriteBytes(buf, off, <<v % 256, (v \div 256) % 256>>)

\* setUint32 without its littleEndian argument: big-endian
setUint32BigEndian(buf, off, v) ==
    WriteBytes(buf, off, <<(v \div 16777216) % 256, (v \div 65536) % 256,
                           (v \div 256) % 256, v % 256>>)

\* DataView.prototype.setUint32(off, v, true): little-endian
setUint32(buf, off, v) ==
    WriteBytes(buf, off, <<v % 256, (v \div 256) % 256,
                           (v \div 65536) % 256, (v \div 16777216) % 256>>)

\* setInt16 without its littleEndian argument: big-endian
setInt16BigEndian(buf, off, v) ==
    WriteBytes(buf, off, <<((v % 65536) \div 256) % 256, (v % 65536) % 256>>)

\* DataView.prototype.setInt16(off, v, true): two's complement, little-endian
setInt16(buf, off, v) == setUint16(buf, off, v % 65536)

\* lines 91-95
RECURSIVE writeString(_, _, _)
writeString(buf, off, s) ==
    IF s = "" THEN buf
    ELSE writeString(setUint8(buf, off, charCode(CharAt(s, 1))),
                     off + 1, SubSeq(s, 2, Len(s)))

\* lines 83-87: the samples pcm[i..] written from byte offset off on
RECURSIVE writeSamples(_, _, _, _)
writeSamples(buf, off, pcm, i) ==
    IF i > Len(pcm) THEN buf
    ELSE writeSamples(setInt16(buf, off, pcm[i]), off + 2, pcm, i + 1)

numChannels == 1
bytesPerSample == 2
HeaderSize == 44

\* the number of samples taken for the number of bytes
byteLengthAsLength(pcm) == Len(pcm)

\* Int16Array.prototype.byteLength
byteLength(pcm) == bytesPerSample * Len(pcm)

\* lines 46-96: the bytes of the buffer the returned Blob wraps
pcmToWav(pcm, rate) ==
    LET blockAlign == numChannels * bytesPerSample
        byteRate == rate * blockAlign
        b0 == [i \in 1..(HeaderSize + byteLength(pcm)) |-> 0]
        b1 == writeString(b0, 0, "RIFF")
        b2 == setUint32(b1, 4, 36 + byteLength(pcm))
        b3 == writeString(b2, 8, "WAVE")
        b4 == writeString(b3, 12, "fmt ")
        b5 == setUint32(b4, 16, 16)
        b6 == setUint16(b5, 20, 1)
        b7 == setUint16(b6, 22, numChannels)
        b8 == setUint32(b7, 24, rate)
        b9 == setUint32(b8, 28, byteRate)
        b10 == setUint16(b9, 32, blockAlign)
        b11 == setUint16(b10, 34, 16)
        b12 == writeString(b11, 36, "data")
        b13 == setUint32(b12, 40, byteLength(pcm))
    IN  writeSamples(b13, HeaderSize, pcm, 1)

(***************************************************************************)
(* Errors                                                                  *)
(***************************************************************************)
NoError == [name |-> "none", status |-> 0, text |-> "", attempt |-> 0]
\* new Error(`API Request failed with status ${status}: ${errorText}`)
ApiError(status, text, attempt) ==
    [name |-> "Error", status |-> status, text |-> text, attempt |-> attempt]
\* any other exception, raised while handling the request of `attempt`
OtherError(name, attempt) ==
    [name |-> name, status |-> 0, text |-> "", attempt |-> attempt]

(***************************************************************************)
(* fetchWithRetry                                                          *)
(***************************************************************************)
maxRetries == 3
backoffBase == 1000
jitterScale == 1000

RECURSIVE Pow2(_)
Pow2(n) == IF n = 0 THEN 1 ELSE 2 * Pow2(n - 1)

\* Math.random() * 1000, in [0, 1000): the whole milliseconds it can amount to
Jitters == {0, jitterScale - 1}

\* a backoff that triples with every retry
backoffDelayTripling(r, jitter) == (3 ^ r) * backoffBase + jitter

\* a backoff that grows linearly
backoffDelayLinear(r, jitter) == (r + 1) * backoffBase + jitter

\* lines 112 and 122: Math.pow(2, retries) * 1000 + Math.random() * 1000
backoffDelay(r, jitter) == Pow2(r) * backoffBase + jitter

(***************************************************************************)
(* What one fetch() call can meet                                          *)
(***************************************************************************)
\* a 2xx response whose body parses to b (JInvalid: the body is not JSON)
OkResponse(b) ==
    [kind |-> "ok", status |-> 200, text |-> "", json |-> b]
\* a non-2xx response
HttpResponse(status) ==
    [kind |-> "http", status |-> status, text |-> "overloaded", json |-> JUndef]
\* fetch() itself rejects (network error, abort)
TransportFailure ==
    [kind |-> "neterr", status |-> 0, text |-> "", json |-> JUndef]

ErrorStatuses == {429, 500}
ErrorResponses == {HttpResponse(s) : s \in ErrorStatuses}

(***************************************************************************)
(* The 2xx bodies the backend is let to send                               *)
(***************************************************************************)
\* {candidates: [c]}
WithCandidate(c) == JObj([candidates |-> JArr(<<c>>)])
\* {content: {parts: [{text: text}]}}
TextCandidate(text) == JObj([content |-> JObj([parts |-> JArr(<<JObj([text |-> text])>>)])])
\* a candidate with text and grounding metadata gm
GroundedCandidate(gm) ==
    JObj([content |-> JObj([parts |-> JArr(<<JObj([text |-> JStr("answer")])>>)]),
          groundingMetadata |-> gm])
Attribution(uri, title) == JObj([web |-> JObj([uri |-> JStr(uri), title |-> JStr(title)])])
NoUri(title) == JObj([web |-> JObj([title |-> JStr(title)])])
NoTitle(uri) == JObj([web |-> JObj([uri |-> JStr(uri)])])
Grounding(list) == GroundedCandidate(JObj([groundingAttributions |-> list]))
\* a speech candidate
Inline(inlineData) ==
    WithCandidate(JObj([content |-> JObj([parts |-> JArr(<<JObj([inlineData |-> inlineData])>>)])]))
Audio(data, mime) == Inline(JObj([data |-> data, mimeType |-> mime]))

\* bodies of no particular shape
CommonBodies ==
    {JNull, JObj(<<>>), JArr(<<>>), JNum(5), JStr("ok"), JBool(TRUE),
     JObj([candidates |-> JNull]), JObj([candidates |-> JArr(<<>>)]),
     WithCandidate(JNull), WithCandidate(JObj(<<>>)),
     WithCandidate(JObj([content |-> JObj([parts |-> JArr(<<>>)])]))}

TextBodies ==
    {WithCandidate(TextCandidate(JStr(""))),
     WithCandidate(TextCandidate(JStr("answer"))),
     WithCandidate(GroundedCandidate(JNull)),
     WithCandidate(GroundedCandidate(JObj(<<>>))),
     WithCandidate(Grounding(JArr(<<>>))),
     WithCandidate(Grounding(JArr(<<Attribution("u1", "t1")>>))),
     WithCandidate(Grounding(JArr(<<Attribution("u1", "t1"), NoUri("t2")>>))),
     WithCandidate(Grounding(JArr(<<NoTitle("u0"), Attribution("u2", "t2"),
                                    JObj(<<>>), Attribution("u1", "t1")>>))),
     WithCandidate(Grounding(JArr(<<Attribution("u1", "t1"), JNull>>))),
     WithCandidate(Grounding(JStr("u1"))),
     WithCandidate(Grounding(JObj(<<>>))),
     WithCandidate(Grounding(JNum(0)))}

StructuredBodies ==
    {WithCandidate(TextCandidate(JStr(""))),
     WithCandidate(TextCandidate(JStr("not valid json"))),
     WithCandidate(TextCandidate(JStr("[]"))),
     WithCandidate(TextCandidate(JStr(
        "[{\"type\":\"flashcard\",\"question\":\"q1\",\"answer\":\"a1\"}]"))),
     WithCandidate(TextCandidate(JStr(
        "[{\"type\":\"quiz\",\"question\":\"q\",\"answer\":\"a\",\"options\":[\"a\",\"b\",\"c\",\"d\"]}, {\"type\":\"flashcard\",\"question\":\"q2\",\"answer\":\"a2\"}]"))),
     WithCandidate(TextCandidate(JStr("[{\"type\":\"quiz\","))),
     WithCandidate(TextCandidate(JStr("null"))),
     WithCandidate(TextCandidate(JStr("7"))),
     WithCandidate(TextCandidate(JStr("{\"type\":\"quiz\"}"))),
     WithCandidate(TextCandidate(JStr("\"quiz\""))),
     WithCandidate(TextCandidate(JNum(7))),
     WithCandidate(TextCandidate(JObj(<<>>)))}

Prediction(bytes) == JObj([bytesBase64Encoded |-> bytes])
ImageBodies ==
    {JObj([predictions |-> JNull]),
     JObj([predictions |-> JArr(<<>>)]),
     JObj([predictions |-> JArr(<<JObj(<<>>)>>)]),
     JObj([predictions |-> JArr(<<Prediction(JStr(""))>>)]),
     JObj([predictions |-> JArr(<<Prediction(JStr("iVBORw0KGgo="))>>)]),
     JObj([predictions |-> JArr(<<Prediction(JStr("AAAA")), Prediction(JStr("BBBB"))>>)]),
     JObj([predictions |-> JArr(<<Prediction(JNum(7))>>)]),
     JObj([predictions |-> JArr(<<JNull>>)]),
     JObj([predictions |-> JStr("iVBORw0KGgo=")]),
     JObj([predictions |-> JObj([length |-> JNum(1)])]),
     JObj([predictions |-> JNum(1)])}

TtsBodies ==
    {Inline(JNull), Inline(JObj(<<>>)),
     Audio(JStr(""), JStr("audio/L16;rate=24000")),
     Audio(JStr("AAA="), JStr("audio/L16;rate=24000")),
     Audio(JStr("AAD/fwCAZAA="), JStr("audio/L16;rate=48000")),
     Audio(JStr("AAD/fwCAZAA="), JStr("audio/L16")),
     Audio(JStr("AQID BAUG"), JStr("audio/L16;codec=pcm;rate=16000")),
     Audio(JStr("/v8="), JStr("audio/L16;rate=;rate=8000x")),
     Audio(JStr("AAA="), JStr("audio/mpeg")),
     Audio(JStr("AAA="), JStr("")),
     Inline(JObj([data |-> JStr("AAA=")])),
     Audio(JStr("AAA="), JNum(16)),
     Audio(JStr("AAA="), JArr(<<JStr("audio/L16")>>)),
     Audio(JStr("AAAA"), JStr("audio/L16;rate=24000")),
     Audio(JStr("AA=="), JStr("audio/L16;rate=24000")),
     Audio(JStr("A"), JStr("audio/L16;rate=24000")),
     Audio(JStr("not base64!"), JStr("audio/L16;rate=24000")),
     Audio(JNum(7), JStr("audio/L16;rate=24000"))}

Bodies(g) ==
    CommonBodies \cup
    CASE g = "generateTextContent" -> TextBodies
      [] g = "generateStructuredStudyContent" -> StructuredBodies
      [] g = "generateImageContent" -> ImageBodies
      [] OTHER -> TtsBodies

Responses(g) ==
    {OkResponse(b) : b \in Bodies(g) \cup {JInvalid}}
    \cup ErrorResponses
    \cup {TransportFailure}

Step(do, e) == [do |-> do, e |-> e]

\* line 111: the 429 branch of the try block is taken
rateLimited(r, n) == r.status = 429 /\ n < maxRetries

\* lines 109-119, the try block on response r with `retries` = n: it returns
\* response.json(), sleeps and recurses, or throws. readable: whether
\* response.text() resolves, where the block calls it
tryBlock(r, n, readable) ==
    CASE r.kind = "neterr" -> Step("throw", OtherError("TypeError", n))
      [] r.kind = "ok" -> Step("return", NoError)
      [] rateLimited(r, n) -> Step("retry", NoError)
      [] OTHER ->
           IF readable
           THEN Step("throw", ApiError(r.status, r.text, n))
           ELSE Step("throw", OtherError("TypeError", n))

\* a catch block that retries once more
catchRetriesOnceMore(n) == n <= maxRetries

\* line 121: the catch block retries
catchRetries(n) == n < maxRetries

\* lines 120-127, the catch block on error e with `retries` = n
catchBlock(e, n) ==
    IF catchRetries(n) THEN Step("retry", NoError) ELSE Step("throw", e)

\* line 119: response.json() settles the call
returnJson(r, n) ==
    IF r.json.t = "invalid"
    THEN Step("throw", OtherError("SyntaxError", n))
    ELSE Step("resolve", NoError)

\* the same with the promise awaited inside the try block: a rejection is caught
fetchWithRetryAwaitsJson(r, n, readable) ==
    LET t == tryBlock(r, n, readable)
        j == returnJson(r, n)
    IN  CASE t.do = "throw" -> catchBlock(t.e, n)
          [] t.do = "return" -> IF j.do = "throw" THEN catchBlock(j.e, n) ELSE j
          [] OTHER -> t

\* the same with the recursive call awaited: the catch block of the invocation
\* that made the call, whose counter is n - 1, meets the rejection
outerInvocationCatches(a, n) ==
    IF a.do = "throw" /\ n > 0 THEN catchBlock(a.e, n - 1) ELSE a

\* lines 114 and 124: `return fetchWithRetry(url, options, retries + 1)` hands
\* the promise of the recursive call on without await, so what the invocation
\* with counter n ends with is what the whole call ends with
outerInvocation(a, n) == a

\* lines 106-128, one invocation of fetchWithRetry up to its return, its throw or
\* its recursive call. The promise of response.json() is returned without await,
\* so its rejection passes the catch block by; so does the promise of the
\* recursive call.
fetchWithRetry(r, n, readable) ==
    LET t == tryBlock(r, n, readable)
    IN  outerInvocation(CASE t.do = "throw" -> catchBlock(t.e, n)
                          [] t.do = "return" -> returnJson(r, n)
                          [] OTHER -> t,
                        n)

(***************************************************************************)
(* The requests the service generators build                               *)
(***************************************************************************)
NoArgs == <<>>
\* argument i of a call; undefined when the caller left it out
Arg(a, i) == IF i <= Len(a) THEN a[i] ELSE JUndef
\* a default parameter value: it stands in for undefined only
Default(v, d) == IF v.t = "undefined" THEN d ELSE v

\* {parts: [{text: text}]}
Parts(text) == JRec(<<Member("parts", JArr(<<JRec(<<Member("text", text)>>)>>))>>)

\* line 630: the tools property as the component writes it, an empty list when off
toolsOrEmptyList(useGrounding) ==
    IF Truthy(useGrounding)
    THEN JArr(<<JRec(<<Member("google_search", JRec(<<>>))>>)>>)
    ELSE JArr(<<>>)

\* line 146: useGrounding ? [{ google_search: {} }] : undefined
toolsOf(useGrounding) ==
    IF Truthy(useGrounding)
    THEN JArr(<<JRec(<<Member("google_search", JRec(<<>>))>>)>>)
    ELSE JUndef

\* lines 141-147
textPayload(a) ==
    JRec(<<Member("contents", JArr(<<Parts(Arg(a, 1))>>)),
           Member("systemInstruction", Parts(Arg(a, 2))),
           Member("tools", toolsOf(Default(Arg(a, 3), JBool(FALSE))))>>)

StringType == JRec(<<Member("type", JStr("STRING"))>>)
\* lines 195-212
responseSchema ==
    JRec(<<Member("type", JStr("ARRAY")),
           Member("description",
                  JStr("A list of structured study items (flashcards or quiz questions).")),
           Member("items", JRec(<<
               Member("type", JStr("OBJECT")),
               Member("properties", JRec(<<
                   Member("type", JRec(<<Member("type", JStr("STRING")),
                                         Member("enum", JArr(<<JStr("flashcard"),
                                                               JStr("quiz")>>))>>)),
                   Member("question", StringType),
                   Member("answer", StringType),
                   Member("options", JRec(<<
                       Member("type", JStr("ARRAY")),
                       Member("items", StringType),
                       Member("description",
                              JStr("Only used for quiz type. Contains 3 incorrect options and 1 correct one (which is the 'answer' field)."))>>))>>)),
               Member("required", JArr(<<JStr("type"), JStr("question"),
                                         JStr("answer")>>))>>))>>)

\* lines 188-214
structuredPayload(a) ==
    JRec(<<Member("contents", JArr(<<Parts(Arg(a, 1))>>)),
           Member("systemInstruction", Parts(Arg(a, 2))),
           Member("generationConfig", JRec(<<
               Member("responseMimeType", JStr("application/json")),
               Member("responseSchema", responseSchema)>>))>>)

\* lines 246-249
imagePayload(a) ==
    JRec(<<Member("instances", JArr(<<JRec(<<Member("prompt", Arg(a, 1))>>)>>)),
           Member("parameters", JRec(<<Member("sampleCount", JNum(1))>>))>>)

\* lines 278-291
ttsPayload(a) ==
    JRec(<<Member("contents", JArr(<<Parts(
               JStr("Say clearly: \"" \o JsToString(Arg(a, 1)) \o "\""))>>)),
           Member("generationConfig", JRec(<<
               Member("responseModalities", JArr(<<JStr("AUDIO")>>)),
               Member("speechConfig", JRec(<<
                   Member("voiceConfig", JRec(<<
                       Member("prebuiltVoiceConfig", JRec(<<
                           Member("voiceName",
                                  Default(Arg(a, 2), JStr("Kore")))>>))>>))>>))>>)),
           Member("model", JStr("gemini-2.5-flash-preview-tts"))>>)

payloadOf(g, a) ==
    CASE g = "generateTextContent" -> textPayload(a)
      [] g = "generateStructuredStudyContent" -> structuredPayload(a)
      [] g = "generateImageContent" -> imagePayload(a)
      [] OTHER -> ttsPayload(a)

NoRequest == [method |-> "", contentType |-> "", body |-> JUndef]
\* lines 149-153, 216-220, 251-255, 293-297: the options object
optionsOf(g, a) ==
    [method |-> "POST", contentType |-> "application/json",
     body |-> JSONstringify(payloadOf(g, a))]

\* the arguments the generators are called with
Arguments(g) ==
    CASE g = "generateTextContent" ->
            {<<JStr("what is a wav file"), JStr("be brief")>>,
             <<JStr("what is a wav file"), JStr("be brief"), JBool(FALSE)>>,
             <<JStr("what is a wav file"), JStr("be brief"), JBool(TRUE)>>}
      [] g = "generateStructuredStudyContent" ->
            {<<JStr("photosynthesis"), JStr("make flashcards")>>}
      [] g = "generateImageContent" -> {<<JStr("a red kite")>>}
      [] OTHER -> {<<JStr("hello")>>, <<JStr("hello"), JStr("Puck")>>}

(***************************************************************************)
(* The service generators, from the value fetchWithRetry resolved with    *)
(***************************************************************************)
\* how a generator ends
Pending == [kind |-> "pending", v |-> JUndef, e |-> NoError]
Returned(v) == [kind |-> "return", v |-> v, e |-> NoError]
Threw(e) == [kind |-> "throw", v |-> JUndef, e |-> e]

DiagnosticText == "Error: Could not generate a response. Please check the API status."

\* line 166-169: the source record the map callback builds from one attribution
sourceOf(attribution) ==
    LET web == Prop(attribution, "web")
    IN  IF IsThrown(web) THEN web
        ELSE JObj([uri |-> OptProp(web, "uri"), title |-> OptProp(web, "title")])

\* line 170: the filter callback
keepSource(source) == Truthy(source.o.uri) /\ Truthy(source.o.title)

\* lines 165-170: groundingAttributions.map(...).filter(...)
extractSources(attributions) ==
    IF attributions.t # "array" THEN Thrown("TypeError")
    ELSE LET mapped == [i \in 1..Len(attributions.a) |-> sourceOf(attributions.a[i])]
         IN  IF \E i \in 1..Len(mapped) : IsThrown(mapped[i])
             THEN Thrown("TypeError")
             ELSE JArr(SelectSeq(mapped, keepSource))

\* lines 156-176
generateTextContent(res) ==
    LET candidates == Prop(res, "candidates")
        candidate == OptIdx0(candidates)
        text == OptProp(OptIdx0(OptProp(Prop(candidate, "content"), "parts")), "text")
        groundingMetadata == Prop(candidate, "groundingMetadata")
        attributions == Prop(groundingMetadata, "groundingAttributions")
        sources == IF Truthy(groundingMetadata) /\ Truthy(attributions)
                   THEN extractSources(attributions)
                   ELSE JArr(<<>>)
    IN  IF IsThrown(candidates) THEN Threw(OtherError(candidates.e, 0))
        ELSE IF Truthy(candidate) /\ Truthy(text)
        THEN IF IsThrown(sources) THEN Threw(OtherError(sources.e, 0))
             ELSE Returned(JObj([text |-> text, sources |-> sources]))
        ELSE Returned(JObj([text |-> JStr(DiagnosticText), sources |-> JArr(<<>>)]))

\* line 233: the item the catch block returns
ErrorItem ==
    JArr(<<JObj([type |-> JStr("error"),
                 question |-> JStr("Error generating study material."),
                 answer |-> JStr("Please try again with a clearer prompt.")])>>)

\* the same with neither the read of the text nor JSON.parse inside a try block
generateStructuredUnguarded(res) ==
    LET jsonString ==
            OptProp(OptIdx0(OptProp(OptProp(OptIdx0(Prop(res, "candidates")),
                                            "content"), "parts")), "text")
        parsed == JSONparse(jsonString)
    IN  CASE IsThrown(jsonString) -> Threw(OtherError(jsonString.e, 0))
          [] ~Truthy(jsonString) -> Threw(OtherError("Error", 0))
          [] IsThrown(parsed) -> Threw(OtherError(parsed.e, 0))
          [] OTHER -> Returned(parsed)

\* lines 224-234
generateStructuredStudyContent(res) ==
    LET jsonString ==
            OptProp(OptIdx0(OptProp(OptProp(OptIdx0(Prop(res, "candidates")),
                                            "content"), "parts")), "text")
        parsed == JSONparse(jsonString)
    IN  CASE IsThrown(jsonString) -> Returned(ErrorItem)
          [] ~Truthy(jsonString) -> Returned(ErrorItem)
          [] IsThrown(parsed) -> Returned(ErrorItem)
          [] OTHER -> Returned(parsed)

ImagePrefix == "data:image/png;base64,"

\* lines 257-264
generateImageContent(res) ==
    LET predictions == Prop(res, "predictions")
        first == Idx0(predictions)
        bytes == Prop(first, "bytesBase64Encoded")
    IN  IF IsThrown(predictions) THEN Threw(OtherError(predictions.e, 0))
        ELSE IF Truthy(predictions) /\ GreaterThanZero(Prop(predictions, "length"))
        THEN IF IsThrown(bytes) THEN Threw(OtherError(bytes.e, 0))
             ELSE IF Truthy(bytes)
             THEN Returned(JStr(ImagePrefix \o JsToString(bytes)))
             ELSE Returned(JNull)
        ELSE Returned(JNull)

DefaultSampleRate == 24000
PcmMarker == "audio/L16"
BlobUrl == JStr("blob:audio/wav")

\* line 306: mimeType.match(/rate=(\d+)/), as the digits matched, "" for no match
rateMatch(mime) ==
    LET hits == {i \in 1..Len(mime) : HasAt(mime, i, "rate=") /\ DigitRun(mime, i + 5) > 0}
    IN  IF hits = {} THEN ""
        ELSE LET i == CHOOSE k \in hits : \A m \in hits : k <= m
             IN  SubSeq(mime, i + 5, i + 4 + DigitRun(mime, i + 5))

\* the rate parameter of the MIME type ignored
sampleRateIgnoringMime(mime) == DefaultSampleRate

\* line 307: rateMatch ? parseInt(rateMatch[1], 10) : 24000
sampleRateOf(mime) ==
    LET digits == rateMatch(mime)
    IN  IF digits = "" THEN DefaultSampleRate ELSE DigitsValue(digits, 1, Len(digits))

TtsNull == [kind |-> "null", e |-> "none", pcm |-> <<>>, rate |-> 0]
TtsThrow(name) == [kind |-> "throw", e |-> name, pcm |-> <<>>, rate |-> 0]
TtsAudio(pcm, rate) == [kind |-> "audio", e |-> "none", pcm |-> pcm, rate |-> rate]

\* lines 300-316: what generateTTSAudio hands to pcmToWav, unless it returns null
\* or throws before
ttsDecode(res) ==
    LET part == OptIdx0(OptProp(OptProp(OptIdx0(OptProp(res, "candidates")),
                                        "content"), "parts"))
        audioData == OptProp(OptProp(part, "inlineData"), "data")
        mimeType == OptProp(OptProp(part, "inlineData"), "mimeType")
        pcmData == base64ToArrayBuffer(audioData)
        samples == Int16ArrayOf(pcmData.a)
    IN  CASE ~(Truthy(audioData) /\ Truthy(mimeType)) -> TtsNull
          [] mimeType.t # "string" -> TtsThrow("TypeError")
          [] ~StartsWith(mimeType.s, PcmMarker) -> TtsNull
          [] IsThrown(pcmData) -> TtsThrow(pcmData.e)
          [] IsThrown(samples) -> TtsThrow(samples.e)
          [] OTHER -> TtsAudio(samples.a, sampleRateOf(mimeType.s))

\* lines 299-323
generateTTSAudio(res) ==
    LET d == ttsDecode(res)
    IN  CASE d.kind = "null" -> Returned(JNull)
          [] d.kind = "throw" -> Threw(OtherError(d.e, 0))
          [] OTHER -> Returned(BlobUrl)

\* the same with the await inside the try block of generateStructuredStudyContent
onRejectedCaught(g, e) ==
    IF g = "generateStructuredStudyContent" THEN Returned(ErrorItem) ELSE Threw(e)

\* lines 155, 222, 257, 299: `await fetchWithRetry(apiUrl, options)` stands outside
\* every try block of generator g, so a rejection with e leaves the generator
onRejected(g, e) == Threw(e)

\* the continuation of generator g after its await of fetchWithRetry
generatorResult(g, res) ==
    CASE g = "generateTextContent" -> generateTextContent(res)
      [] g = "generateImageContent" -> generateImageContent(res)
      [] g = "generateStructuredStudyContent" -> generateStructuredStudyContent(res)
      [] OTHER -> generateTTSAudio(res)

(***************************************************************************)
(* The text generation inlined in the component                            *)
(***************************************************************************)
\* no chat entry built
NoChat == [kind |-> "none", user |-> JUndef, ai |-> JUndef, sources |-> JUndef]
\* lines 642-651, 659: the entry appended to the chats (its fields id, mode,
\* persona, timestamp and isFavorite do not depend on the response)
Chat(user, ai, sources) == [kind |-> "chat", user |-> user, ai |-> ai, sources |-> sources]
\* lines 662-664: the catch block sets the error message and appends nothing
ChatFailed(user) ==
    [kind |-> "error", user |-> user,
     ai |-> JStr("Text generation failed. Please try again."), sources |-> JUndef]

FallbackText == "Could not generate a response."

\* line 655: the source record the map callback builds from one attribution
appSourceOf(attr) ==
    LET web == Prop(attr, "web")
    IN  IF IsThrown(web) THEN web
        ELSE JObj([uri |-> OptProp(web, "uri"), title |-> OptProp(web, "title")])

\* line 656: the filter callback
appKeepSource(source) == Truthy(source.o.uri)

\* lines 654-656: groundingAttributions.map(...).filter(...)
appExtractSources(attributions) ==
    IF attributions.t # "array" THEN Thrown("TypeError")
    ELSE LET mapped == [i \in 1..Len(attributions.a) |-> appSourceOf(attributions.a[i])]
         IN  IF \E i \in 1..Len(mapped) : IsThrown(mapped[i])
             THEN Thrown("TypeError")
             ELSE JArr(SelectSeq(mapped, appKeepSource))

\* lines 639-664: App.generateTextContent from the value performFetch resolved
\* with, up to the chat entry it appends or the error it sets
AppGenerateTextContent(textPrompt, res) ==
    LET candidates == Prop(res, "candidates")
        candidate == OptIdx0(candidates)
        text == OptProp(OptIdx0(OptProp(OptProp(candidate, "content"), "parts")), "text")
        responseText == IF Truthy(text) THEN text ELSE JStr(FallbackText)
        groundingMetadata == OptProp(candidate, "groundingMetadata")
        attributions == Prop(groundingMetadata, "groundingAttributions")
        sources == IF Truthy(groundingMetadata) /\ Truthy(attributions)
                   THEN appExtractSources(attributions)
                   ELSE JArr(<<>>)
    IN  IF IsThrown(candidates) \/ IsThrown(sources)
        THEN ChatFailed(textPrompt)
        ELSE Chat(textPrompt, responseText, sources)

(***************************************************************************)
(* pcmToWav of the component                                               *)
(***************************************************************************)
\* setUint32 taken as little-endian whatever its third argument
appSetUint32LittleEndian(buf, off, v, littleEndian) == setUint32(buf, off, v)

\* DataView.prototype.setUint32(off, v, littleEndian)
appSetUint32(buf, off, v, littleEndian) ==
    IF littleEndian THEN setUint32(buf, off, v)
    ELSE WriteBytes(buf, off, <<(v \div 16777216) % 256, (v \div 65536) % 256,
                                (v \div 256) % 256, v % 256>>)

\* lines 418, 422, 424, 440: 0x52494646, 0x57415645, 0x666d7420, 0x64617461
ChunkRIFF == 1380533830
ChunkWAVE == 1463899717
ChunkFmt == 1718449184
ChunkData == 1684108385

\* lines 411-452: the bytes of the buffer the returned Blob wraps
appPcmToWav(pcm, rate) ==
    LET numSamples == Len(pcm)
        b0 == [i \in 1..(44 + numSamples * 2) |-> 0]
        b1 == appSetUint32(b0, 0, ChunkRIFF, FALSE)
        b2 == appSetUint32(b1, 4, 36 + numSamples * 2, TRUE)
        b3 == appSetUint32(b2, 8, ChunkWAVE, FALSE)
        b4 == appSetUint32(b3, 12, ChunkFmt, FALSE)
        b5 == appSetUint32(b4, 16, 16, TRUE)
        b6 == setUint16(b5, 20, 1)
        b7 == setUint16(b6, 22, numChannels)
        b8 == appSetUint32(b7, 24, rate, TRUE)
        b9 == appSetUint32(b8, 28, rate * numChannels * 2, TRUE)
        b10 == setUint16(b9, 32, numChannels * 2)
        b11 == setUint16(b10, 34, 16)
        b12 == appSetUint32(b11, 36, ChunkData, FALSE)
        b13 == appSetUint32(b12, 40, numSamples * 2, TRUE)
    IN  writeSamples(b13, 44, pcm, 1)

(***************************************************************************)
(* performFetch, the retrying fetch of the component                       *)
(***************************************************************************)
\* line 376: retries = 3
defaultRetries == 3

\* no call of performFetch made
NoFetch ==
    [pc |-> "idle", i |-> 0, requests |-> 0, trace |-> <<>>, sleeps |-> <<>>,
     result |-> JUndef, err |-> NoError]

\* the component not mounted
NoApp == [mounted |-> FALSE]

\* line 386: the 429 branch is taken in iteration i
performFetchRateLimited(r, i) == r.status = 429 /\ i < defaultRetries - 1

\* lines 378-392, the try block of iteration i on response r. jsonReadable:
\* whether response.json() of a non-2xx response resolves
performFetchTry(r, i, jsonReadable) ==
    CASE r.kind = "neterr" -> Step("throw", OtherError("TypeError", i))
      [] r.kind = "ok" -> Step("return", NoError)
      [] performFetchRateLimited(r, i) -> Step("retry", NoError)
      [] OTHER ->
           IF jsonReadable
           THEN Step("throw", ApiError(r.status, r.text, i))
           ELSE Step("throw", OtherError("SyntaxError", i))

\* a catch block that rethrows one iteration too late
performFetchRethrowsLate(i) == i = defaultRetries

\* line 394: the catch block rethrows
performFetchRethrows(i) == i = defaultRetries - 1

\* lines 393-396, the catch block of iteration i on error e
performFetchCatch(e, i) ==
    IF performFetchRethrows(i) THEN Step("throw", e) ELSE Step("retry", NoError)

\* lines 377-396, iteration i of the loop up to its return, its throw or its
\* delay. `return response.json()` is not awaited, so a rejection of it passes
\* the catch block by.
performFetchIteration(r, i, jsonReadable) ==
    LET t == performFetchTry(r, i, jsonReadable)
    IN  CASE t.do = "throw" -> performFetchCatch(t.e, i)
          [] t.do = "return" -> returnJson(r, i)
          [] OTHER -> t

\* lines 387 and 395: delay(Math.pow(2, i) * 1000)
performFetchDelay(i) == Pow2(i) * 1000

\* line 377: i < retries
loopContinues(i) == i < defaultRetries

(***************************************************************************)
(* Actions of one service call                                             *)
(***************************************************************************)
Generators == {"generateTextContent", "generateStructuredStudyContent",
               "generateImageContent", "generateTTSAudio"}

Init ==
    /\ gen = "none"
    /\ pc = "idle"
    /\ retries = 0
    /\ requests = 0
    /\ trace = <<>>
    /\ sleeps = <<>>
    /\ result = JUndef
    /\ err = NoError
    /\ out = Pending
    /\ pcm16 = <<>>
    /\ sampleRate = 0
    /\ wav = <<>>
    /\ args = NoArgs
    /\ request = NoRequest
    /\ calls = <<>>
    /\ uiChat = NoChat
    /\ pf = NoFetch
    /\ app = NoApp
    /\ appWav = <<>>

\* a generator builds its request and calls fetchWithRetry(apiUrl, options)
Call(g, a) ==
    /\ pc = "idle"
    /\ gen' = g
    /\ args' = a
    /\ request' = optionsOf(g, a)
    /\ pc' = "fetching"
    /\ retries' = 0
    /\ requests' = 1
    /\ UNCHANGED <<trace, sleeps, result, err, out, wavVars, otherVars>>

\* fetch() settles with r; the invocation runs to its next await or to its end.
\* jitter is what Math.random() * 1000 gives, readable whether response.text() resolves
Respond(r, jitter, readable) ==
    /\ pc = "fetching"
    /\ trace' = Append(trace, r)
    /\ LET a == fetchWithRetry(r, retries, readable)
       IN  CASE a.do = "resolve" ->
                  /\ pc' = "resolved"
                  /\ result' = r.json
                  /\ UNCHANGED <<err, sleeps>>
             [] a.do = "retry" ->
                  /\ pc' = "sleeping"
                  /\ sleeps' = Append(sleeps, backoffDelay(retries, jitter))
                  /\ UNCHANGED <<result, err>>
             [] OTHER ->
                  /\ pc' = "rejected"
                  /\ err' = a.e
                  /\ UNCHANGED <<result, sleeps>>
    /\ UNCHANGED <<gen, retries, requests, out, wavVars, requestVars, otherVars>>

\* the backoff timer fires: fetchWithRetry(url, options, retries + 1)
Wake ==
    /\ pc = "sleeping"
    /\ pc' = "fetching"
    /\ retries' = retries + 1
    /\ requests' = requests + 1
    /\ UNCHANGED <<gen, trace, sleeps, result, err, out, wavVars, requestVars, otherVars>>

\* fetchWithRetry rejected: the generator's await throws
Propagate ==
    /\ pc = "rejected"
    /\ pc' = "done"
    /\ out' = onRejected(gen, err)
    /\ UNCHANGED <<gen, retries, requests, trace, sleeps, result, err, wavVars,
                   requestVars, otherVars>>

\* fetchWithRetry resolved: the generator runs on to its return or its throw
Finish ==
    /\ pc = "resolved"
    /\ pc' = "done"
    /\ out' = generatorResult(gen, result)
    /\ IF gen = "generateTTSAudio" /\ ttsDecode(result).kind = "audio"
       THEN LET d == ttsDecode(result)
            IN  /\ pcm16' = d.pcm
                /\ sampleRate' = d.rate
                /\ wav' = pcmToWav(d.pcm, d.rate)
       ELSE UNCHANGED wavVars
    /\ UNCHANGED <<gen, retries, requests, trace, sleeps, result, err,
                   requestVars, otherVars>>

Next ==
    \/ \E g \in Generators : \E a \in Arguments(g) : Call(g, a)
    \/ \E r \in Responses(gen), j \in Jitters, readable \in BOOLEAN : Respond(r, j, readable)
    \/ Wake
    \/ Propagate
    \/ Finish

Spec == Init /\ [][Next]_vars

(***************************************************************************)
(* Properties of fetchWithRetry and of the service generators              *)
(***************************************************************************)
Ended == pc \in {"resolved", "rejected", "done"}
Failed == pc \in {"rejected", "done"} /\ err # NoError
\* the delay slept after the response of request i lies in the claimed window
DelayInWindow(i) ==
    /\ sleeps[i] >= (2 ^ (i - 1)) * 1000
    /\ sleeps[i] <= (2 ^ (i - 1)) * 1000 + 1000
\* response i of the call was answered by a backoff sleep and one retry with the
\* counter one higher
RetriedAfter(i) ==
    /\ Len(sleeps) >= i
    /\ DelayInWindow(i)
    /\ i = Len(trace) =>
            \/ pc = "sleeping" /\ requests = i /\ retries = i - 1
            \/ pc = "fetching" /\ requests = i + 1 /\ retries = i
    /\ i < Len(trace) => requests >= i + 1
\* a request in flight carries the counter of the responses before it
CounterFollows == pc = "fetching" => retries = Len(trace) /\ requests = Len(trace) + 1

\* C1: every non-2xx response other than 429 ends the call at once: no sleep and no
\* request follows it, and the error carries its status and body text
C1_NonRetryableFailsImmediately ==
    \A i \in 1..Len(trace) :
        (trace[i].kind = "http" /\ trace[i].status # 429) =>
            /\ i = Len(trace)
            /\ requests = i
            /\ Len(sleeps) = i - 1
            /\ Failed
            /\ err.name = "Error" => err.status = trace[i].status /\ err.text = trace[i].text

\* C2: a 429 with the counter below 3 is followed by a sleep of 2^attempt * 1000 ms
\* to 2^attempt * 1000 + 1000 ms and one request with attempt + 1; a 429 at
\* attempt 3 fails the call with the error of that attempt
C2_RateLimitBackoff ==
    /\ \A i \in 1..Len(trace) : (trace[i].status = 429 /\ i - 1 < 3) => RetriedAfter(i)
    /\ CounterFollows
    /\ (Len(trace) >= 4 /\ trace[4].status = 429) =>
            /\ Len(trace) = 4 /\ requests = 4 /\ Len(sleeps) = 3
            /\ Failed
            /\ err.attempt = 3
            /\ err.name = "Error" => err.status = 429
C2_Witness ==
    /\ Len(trace) = 4
    /\ \A i \in 1..4 : trace[i].status = 429
    /\ pc = "done" /\ err.status = 429

\* C3: a transport failure with the counter below 3 is followed by the same backoff
\* sleep and one request with the counter one higher; at counter 3 the call fails
\* with the error of that last attempt
C3_TransportFailureBackoff ==
    /\ \A i \in 1..Len(trace) : (trace[i].kind = "neterr" /\ i - 1 < 3) => RetriedAfter(i)
    /\ CounterFollows
    /\ (Len(trace) >= 4 /\ trace[4].kind = "neterr") =>
            /\ Len(trace) = 4 /\ requests = 4 /\ Len(sleeps) = 3
            /\ Failed
            /\ err = OtherError("TypeError", 3)
C3_Witness ==
    /\ Len(trace) = 4
    /\ \A i \in 1..4 : trace[i].kind = "neterr"
    /\ pc = "done" /\ err.attempt = 3

\* C4: the first 2xx response ends the call, no request and no sleep follows it, and
\* the call resolves with its parsed body (it rejects where the body does not parse)
C4_SuccessEndsCall ==
    \A i \in 1..Len(trace) :
        trace[i].kind = "ok" =>
            /\ i = Len(trace)
            /\ requests = i
            /\ Len(sleeps) = i - 1
            /\ Ended
            /\ IF trace[i].json.t = "invalid"
               THEN err = OtherError("SyntaxError", i - 1)
               ELSE err = NoError /\ result = trace[i].json
C4_Witness ==
    /\ Len(trace) = 3
    /\ trace[3].kind = "ok" /\ trace[3].json.t = "object"
    /\ pc = "done" /\ result = trace[3].json

\* C5: on a 2xx response, whatever its body parses to, no generator raises
C5_NoGeneratorRaisesOn2xx ==
    (pc = "done" /\ err = NoError) => out.kind = "return"

C7_SpeechNeverRaisesOn2xx ==
    (gen = "generateTTSAudio" /\ pc = "done" /\ err = NoError) =>
        /\ out.kind = "return"
        /\ out.v \in {JNull, BlobUrl}
        /\ out.v = BlobUrl => Len(wav) = 44 + 2 * Len(pcm16)

(***************************************************************************)
(* pcmToWav on its own: the inputs are drawn, the encoder is applied       *)
(***************************************************************************)
MaxSamples == 4
Samples == {-32768, -2, 0, 100, 32767}
\* rates below 2^30, so that sampleRate * blockAlign fits the 32-bit byte-rate field;
\* 16909060 = 0x01020304 has four different bytes
SampleRates == {8000, 16000, 24000, 48000, 16909060}
SampleSequences == UNION {[1..n -> Samples] : n \in 0..MaxSamples}

InitWav ==
    /\ gen = "pcmToWav"
    /\ pc = "ready"
    /\ retries = 0
    /\ requests = 0
    /\ trace = <<>>
    /\ sleeps = <<>>
    /\ result = JUndef
    /\ err = NoError
    /\ out = Pending
    /\ pcm16 \in SampleSequences
    /\ sampleRate \in SampleRates
    /\ wav = <<>>
    /\ args = NoArgs
    /\ request = NoRequest
    /\ calls = <<>>
    /\ uiChat = NoChat
    /\ pf = NoFetch
    /\ app = NoApp
    /\ appWav = <<>>

\* pcmToWav(pcm16, sampleRate)
Encode ==
    /\ pc = "ready"
    /\ pc' = "encoded"
    /\ wav' = pcmToWav(pcm16, sampleRate)
    /\ UNCHANGED <<gen, retries, requests, trace, sleeps, result, err, out,
                   pcm16, sampleRate, requestVars, otherVars>>

NextWav == Encode

SpecWav == InitWav /\ [][NextWav]_vars

\* the unsigned little-endian numbers at byte offset off of a byte sequence
Uint16At(bytes, off) == bytes[off + 1] + 256 * bytes[off + 2]
Uint32At(bytes, off) ==
    bytes[off + 1] + 256 * bytes[off + 2] + 65536 * bytes[off + 3]
    + 16777216 * bytes[off + 4]
\* the signed little-endian 16-bit number at byte offset off
Int16At(bytes, off) ==
    IF Uint16At(bytes, off) >= 32768
    THEN Uint16At(bytes, off) - 65536
    ELSE Uint16At(bytes, off)
\* the four bytes at byte offset off
BytesAt(bytes, off) == SubSeq(bytes, off + 1, off + 4)

\* C8: the output has 44 + 2n bytes, the data chunk length at offset 40 is 2n and
\* the RIFF chunk length at offset 4 is 36 + 2n
C8_WavLengths ==
    pc = "encoded" =>
        /\ Len(wav) = 44 + 2 * Len(pcm16)
        /\ Uint32At(wav, 40) = 2 * Len(pcm16)
        /\ Uint32At(wav, 4) = 36 + 2 * Len(pcm16)
C8_Witness ==
    pc = "encoded" /\ Len(pcm16) = 3 /\ Len(wav) = 50

\* C9: the header holds the chunk identifiers as ASCII, first character first, and
\* the format fields little-endian
C9_WavHeader ==
    pc = "encoded" =>
        /\ BytesAt(wav, 0) = <<82, 73, 70, 70>>
        /\ BytesAt(wav, 8) = <<87, 65, 86, 69>>
        /\ BytesAt(wav, 12) = <<102, 109, 116, 32>>
        /\ BytesAt(wav, 36) = <<100, 97, 116, 97>>
        /\ Uint32At(wav, 16) = 16
        /\ Uint16At(wav, 20) = 1
        /\ Uint16At(wav, 22) = 1
        /\ Uint32At(wav, 24) = sampleRate
        /\ Uint32At(wav, 28) = sampleRate * 2
        /\ Uint16At(wav, 32) = 2
        /\ Uint16At(wav, 34) = 16
C9_Witness ==
    /\ pc = "encoded"
    /\ sampleRate = 16000
    /\ pcm16 = <<0, 32767, -32768, 100>>
    /\ BytesAt(wav, 24) = <<128, 62, 0, 0>>

\* C10: the 16-bit little-endian values read from offset 44 on are the input
\* samples, in order
C10_SamplesRoundTrip ==
    pc = "encoded" =>
        /\ Len(wav) - 44 = 2 * Len(pcm16)
        /\ [i \in 1..Len(pcm16) |-> Int16At(wav, 44 + 2 * (i - 1))] = pcm16
C10_Witness ==
    /\ pc = "encoded"
    /\ pcm16 = <<0, 32767, -32768, 100>>
    /\ SubSeq(wav, 45, 52) = <<0, 0, 255, 127, 0, 128, 100, 0>>

(***************************************************************************)
(* What the generators return on a 2xx response                            *)
(***************************************************************************)
\* the call ended on a 2xx response whose body fetchWithRetry resolved with
Answered(g) == gen = g /\ pc = "done" /\ err = NoError

\* the fields a reader of the backend response looks at
FirstCandidate(res) == OptIdx0(OptProp(res, "candidates"))
CandidateText(res) ==
    OptProp(OptIdx0(OptProp(OptProp(FirstCandidate(res), "content"), "parts")), "text")
GroundingMetadata(res) == OptProp(FirstCandidate(res), "groundingMetadata")
Attributions(res) == OptProp(GroundingMetadata(res), "groundingAttributions")

HasCandidateText(res) == CandidateText(res).t = "string" /\ CandidateText(res).s # ""

\* field f of the web record of an attribution entry, undefined where there is none
WebField(entry, f) == OptProp(OptProp(entry, "web"), f)
HasBoth(entry) ==
    /\ WebField(entry, "uri").t = "string" /\ WebField(entry, "uri").s # ""
    /\ WebField(entry, "title").t = "string" /\ WebField(entry, "title").s # ""

\* the entries with both fields, in the order of the backend, as uri/title records
EntriesWithBoth(entries) ==
    LET kept == SelectSeq(entries, HasBoth)
    IN  [i \in 1..Len(kept) |->
            JObj([uri |-> WebField(kept[i], "uri"), title |-> WebField(kept[i], "title")])]

\* C12: for a response with candidate text, generateTextContent returns as
\* sources exactly the groundingAttributions entries that have both web.uri and
\* web.title, in the order of the backend; with no grounding metadata or no
\* attribution list the source list is empty
C12_SourcesAreEntriesWithBoth ==
    Answered("generateTextContent") /\ HasCandidateText(result)
        /\ Attributions(result).t \in {"array", "undefined", "null"}
    => /\ out.kind = "return"
       /\ out.v.o.sources =
            JArr(IF Attributions(result).t = "array"
                 THEN EntriesWithBoth(Attributions(result).a)
                 ELSE <<>>)

NoFirstCandidate(res) == Nullish(FirstCandidate(res))
NoCandidateText(res) ==
    Nullish(CandidateText(res))
    \/ (CandidateText(res).t = "string" /\ CandidateText(res).s = "")

\* C13: when the 2xx response has no first candidate, or its first candidate has
\* no text or an empty text, generateTextContent returns the fixed diagnostic
\* text with an empty source list and raises nothing
C13_DiagnosticWithoutText ==
    Answered("generateTextContent")
        /\ (NoFirstCandidate(result) \/ NoCandidateText(result))
    => out = Returned(JObj([text |-> JStr(DiagnosticText), sources |-> JArr(<<>>)]))

\* the text of the first candidate is not JSON text
Unparsable(res) == ~NoCandidateText(res) /\ IsThrown(JSONparse(CandidateText(res)))

\* C14: when the text of a 2xx response is absent or is not parsable as JSON,
\* generateStructuredStudyContent returns a list of exactly one item, whose type
\* is "error", and no exception reaches the caller
C14_ErrorItemOnBadText ==
    Answered("generateStructuredStudyContent")
        /\ (NoCandidateText(result) \/ Unparsable(result))
    => /\ out.kind = "return"
       /\ out.v.t = "array"
       /\ Len(out.v.a) = 1
       /\ out.v.a[1].o.type = JStr("error")

C14_Witness ==
    /\ Answered("generateStructuredStudyContent")
    /\ CandidateText(result) = JStr("[{\"type\":\"quiz\",")
    /\ Unparsable(result)
    /\ out = Returned(ErrorItem)

Predictions(res) == OptProp(res, "predictions")
FirstPayload(res) == OptProp(OptIdx0(Predictions(res)), "bytesBase64Encoded")
NoPredictions(res) ==
    Nullish(Predictions(res))
    \/ (Predictions(res).t = "array" /\ Len(Predictions(res).a) = 0)
HasPayload(res) ==
    /\ Predictions(res).t = "array"
    /\ FirstPayload(res).t = "string"
    /\ FirstPayload(res).s # ""
NoPayload(res) ==
    /\ Predictions(res).t = "array"
    /\ Len(Predictions(res).a) > 0
    /\ Nullish(FirstPayload(res)) \/ FirstPayload(res) = JStr("")

\* C15: on a 2xx image response generateImageContent returns
\* 'data:image/png;base64,' followed by predictions[0].bytesBase64Encoded when
\* that payload is present and not empty; it returns null, raising nothing, when
\* predictions is missing or empty or its first entry has no payload
C15_ImageDataUrlOrNull ==
    Answered("generateImageContent") =>
        /\ HasPayload(result) =>
                out = Returned(JStr("data:image/png;base64," \o FirstPayload(result).s))
        /\ NoPredictions(result) \/ NoPayload(result) => out = Returned(JNull)

MimeType(res) ==
    OptProp(OptProp(OptIdx0(OptProp(OptProp(FirstCandidate(res), "content"), "parts")),
                    "inlineData"), "mimeType")

\* generateTTSAudio handed the decoded samples to pcmToWav
Encoded == Answered("generateTTSAudio") /\ out = Returned(BlobUrl)

\* rate parameters as a MIME type spells them, with the rate they name
RateParameters ==
    {<<"rate=8000", 8000>>, <<"rate=16000", 16000>>,
     <<"rate=24000", 24000>>, <<"rate=48000", 48000>>}

\* mime contains the parameter p, and no further digit after it
ContainsParameter(mime, p) ==
    \E i \in 1..Len(mime) :
        /\ HasAt(mime, i, p)
        /\ i + Len(p) <= Len(mime) => ~IsDigit(CharAt(mime, i + Len(p)))
\* mime has no rate parameter that names a number
NoRateParameter(mime) ==
    \A i \in 1..Len(mime) :
        HasAt(mime, i, "rate=") =>
            (i + 5 > Len(mime) \/ ~IsDigit(CharAt(mime, i + 5)))

\* C16: when the mimeType begins with audio/L16 and contains rate=N,
\* generateTTSAudio hands pcmToWav the sample rate N, which is the number
\* written at header offset 24; with no rate parameter the rate is 24000
C16_SampleRateFromMimeType ==
    Encoded =>
        /\ StartsWith(MimeType(result).s, "audio/L16")
        /\ Uint32At(wav, 24) = sampleRate
        /\ \A p \in RateParameters :
                ContainsParameter(MimeType(result).s, p[1]) => sampleRate = p[2]
        /\ NoRateParameter(MimeType(result).s) => sampleRate = 24000

C16_Witness ==
    /\ Encoded
    /\ MimeType(result) = JStr("audio/L16;rate=48000")
    /\ sampleRate = 48000
    /\ Uint32At(wav, 24) = 48000

\* the request body read back as JSON
SentBody == JSONparse(request.body)
GroundingOn == Len(args) >= 3 /\ args[3] = JBool(TRUE)

\* C17: the request body generateTextContent builds, which every fetch() of the
\* call sends, carries the web-search tool declaration exactly when the
\* grounding flag is true; with the flag false or left out, the serialized body
\* has no tools entry at all
C17_ToolsOnlyWhenGrounded ==
    gen = "generateTextContent" /\ pc = "fetching" =>
        /\ request.method = "POST"
        /\ SentBody.t = "object"
        /\ GroundingOn =>
                /\ "tools" \in DOMAIN SentBody.o
                /\ SentBody.o.tools = JArr(<<JObj([google_search |-> JObj(<<>>)])>>)
        /\ ~GroundingOn =>
                /\ "tools" \notin DOMAIN SentBody.o
                /\ IndexOf(request.body.s, "tools") = 0

C17_Witness ==
    /\ gen = "generateTextContent"
    /\ pc = "fetching"
    /\ Len(args) = 2
    /\ request.body.s =
        "{\"contents\":[{\"parts\":[{\"text\":\"what is a wav file\"}]}],\"systemInstruction\":{\"parts\":[{\"text\":\"be brief\"}]}}"

(***************************************************************************)
(* The time one call spends in backoff                                     *)
(***************************************************************************)
RECURSIVE SumFrom(_, _)
SumFrom(seq, i) == IF i > Len(seq) THEN 0 ELSE seq[i] + SumFrom(seq, i + 1)
\* the milliseconds the call has slept in backoff so far
TotalBackoff == SumFrom(sleeps, 1)

\* C18 as the specification words it: the backoff sleeps of one fetchWithRetry
\* call sum to at most 2^2 * 1000 + 1000 = 5000 ms over its 3 retries
C18_TotalBackoffAtMost5000 == TotalBackoff <= 5000

\* C18, amended: one fetchWithRetry call sleeps at most 3 times, each sleep is at
\* most 2^2 * 1000 + 1000 = 5000 ms, and the sleeps sum to at most
\* (2^0 + 2^1 + 2^2) * 1000 + 3 * 1000 = 10000 ms, whatever sequence of 429
\* responses and transport failures the call meets
C18_TotalBackoffAtMost10000 ==
    /\ Len(sleeps) <= 3
    /\ \A i \in 1..Len(sleeps) : sleeps[i] <= 5000
    /\ TotalBackoff <= 10000

C18_Witness ==
    /\ Len(sleeps) = 3
    /\ trace[1].status = 429
    /\ trace[2].kind = "neterr"
    /\ TotalBackoff > 7000
    /\ TotalBackoff < 10000

(***************************************************************************)
(* Two generator calls in flight at once                                   *)
(***************************************************************************)
\* a text generation and an image generation issued back to back
CallIds == {1, 2}
GeneratorOf(c) == IF c = 1 THEN "generateTextContent" ELSE "generateImageContent"

\* the fetchWithRetry call of one generator: the fields of callVars that
\* fetchWithRetry reads and writes
IdleCall ==
    [gen |-> "none", pc |-> "idle", retries |-> 0, requests |-> 0,
     trace |-> <<>>, sleeps |-> <<>>, result |-> JUndef, err |-> NoError]

\* what fetch() answers either call with
TwoResponses ==
    {OkResponse(JObj(<<>>)), HttpResponse(429), TransportFailure}

\* one retry counter at module level, which every call reads
retriesShared(cs, c) == cs[1].retries

\* line 106: `retries` is a parameter, so every call reads the counter of its
\* own invocation
retriesOf(cs, c) == cs[c].retries

InitTwo ==
    /\ gen = "none"
    /\ pc = "idle"
    /\ retries = 0
    /\ requests = 0
    /\ trace = <<>>
    /\ sleeps = <<>>
    /\ result = JUndef
    /\ err = NoError
    /\ out = Pending
    /\ pcm16 = <<>>
    /\ sampleRate = 0
    /\ wav = <<>>
    /\ args = NoArgs
    /\ request = NoRequest
    /\ calls = [c \in CallIds |-> IdleCall]
    /\ uiChat = NoChat
    /\ pf = NoFetch
    /\ app = NoApp
    /\ appWav = <<>>

\* generator c calls fetchWithRetry(apiUrl, options)
CallTwo(c) ==
    /\ calls[c].pc = "idle"
    /\ calls' = [calls EXCEPT ![c] =
            [@ EXCEPT !.gen = GeneratorOf(c), !.pc = "fetching", !.requests = 1]]
    /\ UNCHANGED <<callVars, wavVars, requestVars, uiChat, appVars>>

\* the fetch() of call c settles with r
RespondTwo(c, r, jitter, readable) ==
    /\ calls[c].pc = "fetching"
    /\ LET n == retriesOf(calls, c)
           a == fetchWithRetry(r, n, readable)
           t == Append(calls[c].trace, r)
       IN  calls' = [calls EXCEPT ![c] =
                CASE a.do = "resolve" ->
                        [@ EXCEPT !.trace = t, !.pc = "resolved", !.result = r.json]
                  [] a.do = "retry" ->
                        [@ EXCEPT !.trace = t, !.pc = "sleeping",
                                  !.sleeps = Append(@, backoffDelay(n, jitter))]
                  [] OTHER ->
                        [@ EXCEPT !.trace = t, !.pc = "rejected", !.err = a.e]]
    /\ UNCHANGED <<callVars, wavVars, requestVars, uiChat, appVars>>

\* the backoff timer of call c fires: fetchWithRetry(url, options, retries + 1)
WakeTwo(c) ==
    /\ calls[c].pc = "sleeping"
    /\ calls' = [calls EXCEPT ![c] =
            [@ EXCEPT !.pc = "fetching",
                      !.retries = retriesOf(calls, c) + 1,
                      !.requests = @ + 1]]
    /\ UNCHANGED <<callVars, wavVars, requestVars, uiChat, appVars>>

NextTwo ==
    \/ \E c \in CallIds : CallTwo(c)
    \/ \E c \in CallIds, r \in TwoResponses, j \in Jitters, readable \in BOOLEAN :
            RespondTwo(c, r, j, readable)
    \/ \E c \in CallIds : WakeTwo(c)

SpecTwo == InitTwo /\ [][NextTwo]_vars

\* the requests, the counter, the delays and the outcome of call c follow from
\* the responses that call c itself met
OwnCourse(c) ==
    LET cl == calls[c]
        k == Len(cl.trace)
    IN  /\ cl.requests <= 4
        /\ cl.pc = "idle" => k = 0 /\ cl.requests = 0
        /\ cl.pc = "fetching" =>
                cl.requests = k + 1 /\ cl.retries = k /\ Len(cl.sleeps) = k
        /\ cl.pc = "sleeping" =>
                cl.requests = k /\ cl.retries = k - 1 /\ Len(cl.sleeps) = k
        /\ cl.pc = "resolved" =>
                /\ cl.trace[k].kind = "ok"
                /\ cl.result = cl.trace[k].json
                /\ cl.requests = k /\ Len(cl.sleeps) = k - 1
        /\ cl.pc = "rejected" =>
                /\ k = 4
                /\ cl.trace[k].kind # "ok"
                /\ cl.requests = 4 /\ Len(cl.sleeps) = 3
        /\ \A i \in 1..Len(cl.sleeps) :
                /\ cl.trace[i].kind # "ok"
                /\ cl.sleeps[i] >= (2 ^ (i - 1)) * 1000
                /\ cl.sleeps[i] <= (2 ^ (i - 1)) * 1000 + 1000

\* a step of one call leaves the other call as it is
OneCallMoves ==
    \A c \in CallIds : calls'[c] # calls[c] =>
        \A d \in CallIds \ {c} : calls'[d] = calls[d]

\* C19: two generator calls in flight at once are independent: each
\* fetchWithRetry call has its own retry counter, and under every interleaving
\* the responses, retries and sleeps of one call change neither the number of
\* requests nor the delays nor the outcome of the other
C19_CallsAreIndependent ==
    /\ [](\A c \in CallIds : OwnCourse(c))
    /\ [][OneCallMoves]_vars

C19_Witness ==
    /\ calls[1].pc = "rejected"
    /\ calls[1].requests = 4
    /\ calls[2].pc = "resolved"
    /\ calls[2].requests = 2
    /\ calls[2].retries = 1
    /\ Len(calls[2].sleeps) = 1

(***************************************************************************)
(* One backend response, handed to the service generateTextContent and to  *)
(* the text generation of the component                                    *)
(***************************************************************************)
TextPrompts == {JStr("what is a wav file"), JStr("and a riff chunk")}

InitBoth ==
    /\ gen = "generateTextContent"
    /\ pc = "resolved"
    /\ retries = 0
    /\ requests = 1
    /\ result \in Bodies("generateTextContent")
    /\ trace = <<OkResponse(result)>>
    /\ sleeps = <<>>
    /\ err = NoError
    /\ out = Pending
    /\ pcm16 = <<>>
    /\ sampleRate = 0
    /\ wav = <<>>
    /\ args = NoArgs
    /\ request = NoRequest
    /\ calls = <<>>
    /\ uiChat = NoChat
    /\ pf = NoFetch
    /\ app = NoApp
    /\ appWav = <<>>

\* the service copy runs on from its await (line 155) to its return or throw
ServiceAnswers ==
    /\ out = Pending
    /\ out' = generateTextContent(result)
    /\ UNCHANGED <<gen, pc, retries, requests, trace, sleeps, result, err,
                   wavVars, requestVars, calls, uiChat, appVars>>

\* the copy in the component runs on from its await (line 634) to setChats or
\* setError
AppAnswers(textPrompt) ==
    /\ uiChat = NoChat
    /\ uiChat' = AppGenerateTextContent(textPrompt, result)
    /\ UNCHANGED <<callVars, wavVars, requestVars, calls, appVars>>

NextBoth ==
    \/ ServiceAnswers
    \/ \E textPrompt \in TextPrompts : AppAnswers(textPrompt)

SpecBoth == InitBoth /\ [][NextBoth]_vars

BothAnswered == out.kind = "return" /\ uiChat.kind = "chat"

\* C20: the text generation of the component keeps in the sources of the stored
\* chat only the grounding attributions that have both a uri and a title, as the
\* service generateTextContent does: on the same backend response both copies
\* produce the same source list
C20_BothCopiesKeepTheSameSources ==
    /\ uiChat.kind = "chat" =>
            \A i \in 1..Len(uiChat.sources.a) :
                /\ Truthy(uiChat.sources.a[i].o.uri)
                /\ Truthy(uiChat.sources.a[i].o.title)
    /\ BothAnswered => uiChat.sources = out.v.o.sources

(***************************************************************************)
(* Termination of one call                                                 *)
(***************************************************************************)
\* the outcomes of one fetch(): 2xx with a JSON body or with none, 429, another
\* non-2xx status, a transport failure
FetchOutcomes ==
    {OkResponse(JObj(<<>>)), OkResponse(JInvalid), HttpResponse(429),
     HttpResponse(500), TransportFailure}

\* a generator calls fetchWithRetry
Start == \E g \in Generators : Call(g, CHOOSE a \in Arguments(g) : TRUE)

\* fetch() settles, with a response or with a failure
Settle == \E r \in FetchOutcomes, j \in Jitters, readable \in BOOLEAN : Respond(r, j, readable)

NextLive ==
    \/ Start
    \/ Settle
    \/ Wake

\* every fetch() settles and every backoff timer fires
SpecLive ==
    /\ Init
    /\ [][NextLive]_vars
    /\ WF_vars(Settle)
    /\ WF_vars(Wake)

\* once fetchWithRetry has rejected, the call issues no further request
RejectionIsFinal ==
    pc = "rejected" => pc' \in {"rejected", "done"} /\ requests' = requests

\* C21: every fetchWithRetry call terminates, whatever sequence of 2xx, 429,
\* other non-2xx and transport failures it meets; it issues at most 4 requests,
\* its counter never exceeds 3, and a failure of a nested retry is not caught and
\* retried again by an outer invocation
C21_CallTerminatesWithin4Requests ==
    /\ [](requests <= 4 /\ retries <= 3 /\ Len(trace) <= 4)
    /\ [][RejectionIsFinal]_vars
    /\ (pc = "fetching") ~> Ended

C21_Witness ==
    /\ pc = "rejected"
    /\ requests = 4
    /\ retries = 3
    /\ trace[1].status = 429
    /\ trace[2].status = 500
    /\ trace[3].kind = "neterr"
    /\ trace[4].status = 429

(***************************************************************************)
(* One call of performFetch                                                *)
(***************************************************************************)
\* what fetch() answers performFetch with
PerformOutcomes ==
    {OkResponse(b) : b \in {JObj(<<>>), JNull, JInvalid}}
    \cup {HttpResponse(st) : st \in {429, 500, 404}}
    \cup {TransportFailure}

\* the variables of the service module, which performFetch does not touch
ServiceIdle ==
    /\ gen = "none"
    /\ pc = "idle"
    /\ retries = 0
    /\ requests = 0
    /\ trace = <<>>
    /\ sleeps = <<>>
    /\ result = JUndef
    /\ err = NoError
    /\ out = Pending
    /\ pcm16 = <<>>
    /\ sampleRate = 0
    /\ wav = <<>>
    /\ args = NoArgs
    /\ request = NoRequest
    /\ calls = <<>>
    /\ uiChat = NoChat
serviceVars == <<callVars, wavVars, requestVars, calls, uiChat>>

InitPerform ==
    /\ ServiceIdle
    /\ pf = NoFetch
    /\ app = NoApp
    /\ appWav = <<>>

\* performFetch(url, payload): the loop is entered and fetch() called
PerformCall ==
    /\ pf.pc = "idle"
    /\ pf' = IF loopContinues(0)
             THEN [pf EXCEPT !.pc = "fetching", !.requests = 1]
             ELSE [pf EXCEPT !.pc = "fell through"]
    /\ UNCHANGED <<serviceVars, app, appWav>>

\* fetch() settles with r; iteration i runs to its return, its throw or its delay
PerformRespond(r, jsonReadable) ==
    /\ pf.pc = "fetching"
    /\ LET a == performFetchIteration(r, pf.i, jsonReadable)
           t == Append(pf.trace, r)
       IN  pf' = CASE a.do = "resolve" ->
                        [pf EXCEPT !.trace = t, !.pc = "returned", !.result = r.json]
                   [] a.do = "retry" ->
                        [pf EXCEPT !.trace = t, !.pc = "delaying",
                                   !.sleeps = Append(@, performFetchDelay(pf.i))]
                   [] OTHER ->
                        [pf EXCEPT !.trace = t, !.pc = "threw", !.err = a.e]
    /\ UNCHANGED <<serviceVars, app, appWav>>

\* the delay ends: i++, and the loop goes on or is left, which returns undefined
PerformWake ==
    /\ pf.pc = "delaying"
    /\ pf' = IF loopContinues(pf.i + 1)
             THEN [pf EXCEPT !.pc = "fetching", !.i = @ + 1, !.requests = @ + 1]
             ELSE [pf EXCEPT !.pc = "fell through", !.i = @ + 1]
    /\ UNCHANGED <<serviceVars, app, appWav>>

NextPerform ==
    \/ PerformCall
    \/ \E r \in PerformOutcomes, jsonReadable \in BOOLEAN : PerformRespond(r, jsonReadable)
    \/ PerformWake

SpecPerform == InitPerform /\ [][NextPerform]_vars

\* C22: with its default retries = 3, performFetch issues at most 3 requests,
\* and a call that has ended has returned the parsed body of a 2xx response or
\* has thrown: it never leaves the loop and returns undefined
C22_PerformFetchReturnsBodyOrThrows ==
    /\ pf.requests <= 3
    /\ pf.pc \in {"idle", "fetching", "delaying", "returned", "threw"}
    /\ pf.pc \in {"fetching", "delaying"} => Len(pf.trace) < 3
    /\ pf.pc = "returned" =>
            /\ pf.trace[Len(pf.trace)].kind = "ok"
            /\ pf.result = pf.trace[Len(pf.trace)].json
            /\ pf.result # JUndef
    /\ pf.pc = "threw" => pf.err # NoError

C22_Witness ==
    /\ pf.pc = "threw"
    /\ pf.requests = 3
    /\ pf.trace[1].status = 500
    /\ pf.trace[2].kind = "neterr"
    /\ pf.trace[3].status = 429
    /\ pf.sleeps = <<1000, 2000>>

(***************************************************************************)
(* One sample sequence and rate, handed to both encoders                   *)
(***************************************************************************)
\* pcmToWav(pcm16, sampleRate) of the component
EncodeApp ==
    /\ appWav = <<>>
    /\ appWav' = appPcmToWav(pcm16, sampleRate)
    /\ UNCHANGED <<serviceVars, pf, app>>

NextWavBoth ==
    \/ Encode
    \/ EncodeApp

SpecWavBoth == InitWav /\ [][NextWavBoth]_vars

BothEncoded == pc = "encoded" /\ appWav # <<>>

\* C23: pcmToWav of the service module, which writes the chunk IDs byte by byte,
\* and pcmToWav of the component, which writes them as big-endian 32-bit
\* constants, produce the same bytes for every sample sequence and sample rate
C23_EncodersAgree == BothEncoded => appWav = wav

C23_Witness ==
    /\ BothEncoded
    /\ Len(pcm16) = 3
    /\ sampleRate = 48000
    /\ appWav = wav
    /\ BytesAt(appWav, 0) = <<82, 73, 70, 70>>
    /\ Uint32At(appWav, 24) = 48000

(***************************************************************************)
(* The shape of what generateStructuredStudyContent returns                *)
(***************************************************************************)
\* C24: every value generateStructuredStudyContent returns on a 2xx response is
\* a list: the items parsed from the response text or the single error item,
\* also for a text that is valid JSON and parses to null, a number or an object
C24_StructuredReturnsAList ==
    Answered("generateStructuredStudyContent") =>
        /\ out.kind = "return"
        /\ out.v.t = "array"
        /\ out.v = ErrorItem \/ out.v = JSONparse(CandidateText(result))

(***************************************************************************)
(* The component App: its state, handleSubmit, handleTTS, the four         *)
(* generators from the outcome of performFetch on, and the audio element   *)
(***************************************************************************)
\* String.prototype.trim, for spaces
RECURSIVE trimStart(_)
trimStart(s) == IF s # "" /\ CharAt(s, 1) = " " THEN trimStart(SubSeq(s, 2, Len(s))) ELSE s
RECURSIVE trimEnd(_)
trimEnd(s) ==
    IF s # "" /\ CharAt(s, Len(s)) = " " THEN trimEnd(SubSeq(s, 1, Len(s) - 1)) ELSE s
trim(s) == trimEnd(trimStart(s))

\* String.prototype.toLowerCase, for the letters A-Z
UpperCase == "ABCDEFGHIJKLMNOPQRSTUVWXYZ"
LowerCase == "abcdefghijklmnopqrstuvwxyz"
lowerChar(c) ==
    IF IndexOf(UpperCase, c) > 0 THEN CharAt(LowerCase, IndexOf(UpperCase, c)) ELSE c
RECURSIVE toLowerCase(_)
toLowerCase(s) ==
    IF s = "" THEN "" ELSE lowerChar(CharAt(s, 1)) \o toLowerCase(SubSeq(s, 2, Len(s)))

\* String.prototype.includes
includes(s, p) == IndexOf(s, p) > 0

Tabs == {"Text", "Images", "Study", "Code"}

\* what the user types into the input
Inputs == {"  ", "hi", " Quiz me ", "FLASHCARD"}

\* what generateId() returns: a timestamp and three random characters
Ids == {1, 2}

\* lines 465-479: the state of the mounted component. inflight: the generator
\* calls awaiting performFetch; urls: the object URLs created and not revoked;
\* urlCount: the object URLs created; started, spoken: the generators
\* handleSubmit started and the speech requests handleTTS started so far
MountedApp ==
    [mounted |-> TRUE, queryInput |-> "", activeTab |-> "Text", loading |-> FALSE,
     error |-> JNull, chats |-> <<>>, crownRewards |-> 0, inflight |-> <<>>,
     audio |-> [src |-> 0, playing |-> FALSE, onended |-> 0],
     urls |-> {}, urlCount |-> 0, started |-> 0, spoken |-> 0]

\* an entry of chats. data: its sources, imageUrl or structuredData
ChatEntry(id, kind, user, ai, data) ==
    [id |-> id, kind |-> kind, user |-> user, ai |-> ai, data |-> data]
Awaiting(kind, query) == [kind |-> kind, query |-> query]

\* lines 618-619, 671-673, 720-721, 791-793: what a generator does before it
\* awaits performFetch. id: what generateId() returns in generateImageContent
startGenerator(a, kind, query, id) ==
    [a EXCEPT
        !.loading = TRUE,
        !.error = JNull,
        !.chats = IF kind = "image"
                  THEN Append(@, ChatEntry(id, "placeholder", JStr(query),
                                           JStr("Generating image..."), JUndef))
                  ELSE @,
        !.audio = IF kind = "speech" THEN [@ EXCEPT !.playing = FALSE] ELSE @,
        !.inflight = Append(@, Awaiting(kind, query)),
        !.started = IF kind = "speech" THEN @ ELSE @ + 1,
              !.spoken = IF kind = "speech" THEN @ + 1 ELSE @]

\* a test of the query that takes the case of its letters as it is
wantsStudyItemsCaseSensitive(query) == includes(query, "quiz") \/ includes(query, "flashcard")

\* line 857: the query asks for a quiz or for flashcards
wantsStudyItems(query) ==
    includes(toLowerCase(query), "quiz") \/ includes(toLowerCase(query), "flashcard")

\* lines 855-861: the generator handleSubmit starts
generatorFor(tab, query) ==
    IF tab = "Images" THEN "image"
    ELSE IF tab = "Study" /\ wantsStudyItems(query) THEN "study"
    ELSE "text"

\* lines 846-862
handleSubmit(a, id) ==
    IF a.loading \/ trim(a.queryInput) = "" THEN a
    ELSE startGenerator([a EXCEPT !.queryInput = ""],
                        generatorFor(a.activeTab, trim(a.queryInput)),
                        trim(a.queryInput), id)

\* lines 947-951: handleTTS of the chat entry c
handleTTS(a, c) ==
    IF Truthy(c.ai) THEN startGenerator(a, "speech", JsToString(c.ai), 0) ELSE a

\* how the performFetch call of a generator ends: it returns a body or throws
Got(b) == [kind |-> "return", body |-> b]
Failure == [kind |-> "throw", body |-> JUndef]

AppOutcomes(kind) ==
    {Failure} \cup
    CASE kind = "text" ->
            {Got(WithCandidate(TextCandidate(JStr("answer")))), Got(JNull)}
      [] kind = "image" ->
            {Got(JObj([predictions |-> JArr(<<Prediction(JStr("AAAA"))>>)])),
             Got(JObj(<<>>))}
      [] kind = "study" ->
            {Got(WithCandidate(TextCandidate(JStr("[{\"type\":\"quiz\"}]")))),
             Got(WithCandidate(TextCandidate(JStr("not valid json"))))}
      [] OTHER ->
            {Got(Audio(JStr("AAA="), JStr("audio/L16;rate=24000"))), Got(Inline(JNull))}

\* the catch block of a generator: setError(message), and loading ends
failed(a, message) == [a EXCEPT !.error = JStr(message), !.loading = FALSE]

\* lines 632-667: generateTextContent after its await
completeText(a, query, o, id) ==
    LET c == AppGenerateTextContent(JStr(query), o.body)
    IN  IF o.kind = "throw" \/ c.kind = "error"
        THEN failed(a, "Text generation failed. Please try again.")
        ELSE [a EXCEPT !.chats = Append(@, ChatEntry(id, "text", c.user, c.ai, c.sources)),
                       !.loading = FALSE]

\* line 705: prev.map(c => c.id === newImageChat.id ? newImageChat : c)
replaceById(chats, new) ==
    [i \in 1..Len(chats) |-> IF chats[i].id = new.id THEN new ELSE chats[i]]

\* lines 685-716: generateImageContent after its await
completeImage(a, query, o, id) ==
    LET base64Data == OptProp(OptIdx0(Prop(o.body, "predictions")), "bytesBase64Encoded")
        newImageChat ==
            ChatEntry(id, "image", JStr(query), JStr("AI Image Generated"),
                      JStr("data:image/png;base64," \o JsToString(base64Data)))
    IN  IF o.kind = "throw" \/ IsThrown(base64Data) \/ ~Truthy(base64Data)
        THEN failed(a, "Image generation failed. Ensure your prompt is safe and descriptive.")
        ELSE [a EXCEPT !.chats = replaceById(@, newImageChat),
                       !.crownRewards = @ + 10,
                       !.loading = FALSE]

\* lines 748-786: generateStructuredStudyContent after its await
completeStudy(a, query, o, id) ==
    LET jsonString ==
            OptProp(OptIdx0(OptProp(OptProp(OptIdx0(Prop(o.body, "candidates")),
                                            "content"), "parts")), "text")
        parsed == JSONparse(jsonString)
        newChat ==
            IF IsThrown(parsed)
            THEN ChatEntry(id, "study", JStr(query),
                           JStr("Failed to parse structured response. Showing raw text instead: "
                                \o JsToString(jsonString)),
                           JNull)
            ELSE ChatEntry(id, "study", JStr(query),
                           JStr("Study materials generated successfully."), parsed)
    IN  IF o.kind = "throw" \/ IsThrown(jsonString)
        THEN failed(a, "Study material generation failed. Please refine your request.")
        ELSE [a EXCEPT !.chats = Append(@, newChat), !.loading = FALSE]

\* lines 813-824: what generateTTSAudio hands to pcmToWav, unless it throws before
appTtsDecode(res) ==
    LET part == OptIdx0(OptProp(OptProp(OptIdx0(OptProp(res, "candidates")),
                                        "content"), "parts"))
        audioData == OptProp(OptProp(part, "inlineData"), "data")
        mimeType == OptProp(OptProp(part, "inlineData"), "mimeType")
        pcmData == base64ToArrayBuffer(audioData)
        samples == Int16ArrayOf(pcmData.a)
    IN  CASE ~(Truthy(audioData) /\ Truthy(mimeType)) -> TtsThrow("Error")
          [] mimeType.t # "string" -> TtsThrow("TypeError")
          [] ~StartsWith(mimeType.s, "audio/") -> TtsThrow("Error")
          [] IsThrown(pcmData) -> TtsThrow(pcmData.e)
          [] IsThrown(samples) -> TtsThrow(samples.e)
          [] OTHER -> TtsAudio(samples.a, sampleRateOf(mimeType.s))

\* lines 807-841: generateTTSAudio after its await. The object URL is the next
\* one URL.createObjectURL gives out; the handler of `ended` revokes that URL
completeSpeech(a, query, o) ==
    LET d == appTtsDecode(o.body)
        audioUrl == a.urlCount + 1
    IN  IF o.kind = "throw" \/ d.kind = "throw"
        THEN failed(a, "Text-to-Speech failed. Try a shorter message.")
        ELSE [a EXCEPT !.urlCount = audioUrl,
                       !.urls = @ \cup {audioUrl},
                       !.audio = [src |-> audioUrl, playing |-> TRUE, onended |-> audioUrl],
                       !.loading = FALSE]

\* the generator whose performFetch call ended runs to its end
complete(a, req, o, id) ==
    CASE req.kind = "text" -> completeText(a, req.query, o, id)
      [] req.kind = "image" -> completeImage(a, req.query, o, id)
      [] req.kind = "study" -> completeStudy(a, req.query, o, id)
      [] OTHER -> completeSpeech(a, req.query, o)

\* the sequence without its element i
Without(seq, i) == SubSeq(seq, 1, i - 1) \o SubSeq(seq, i + 1, Len(seq))

\* the `ended` event of the audio element: its handler runs
audioEnded(a) ==
    [a EXCEPT !.audio = [@ EXCEPT !.playing = FALSE],
              !.urls = @ \ {a.audio.onended}]

(***************************************************************************)
(* The component at work: the user types, picks a tab, submits the form     *)
(* and presses the speech button of a chat entry; the requests in flight    *)
(* end in any order; the audio element plays to its end.                    *)
(***************************************************************************)
MaxStarted == 1
MaxSpoken == 2

InitApp ==
    /\ ServiceIdle
    /\ pf = NoFetch
    /\ app = MountedApp
    /\ appWav = <<>>

\* line 1084: onChange of the input, which line 1087 disables while loading
Type(q) ==
    /\ ~app.loading
    /\ app' = [app EXCEPT !.queryInput = q]
    /\ UNCHANGED <<serviceVars, pf, appWav>>

\* line 923
SelectTab(tab) ==
    /\ app' = [app EXCEPT !.activeTab = tab]
    /\ UNCHANGED <<serviceVars, pf, appWav>>

\* line 1072: the form is submitted; id is what generateId() gives the placeholder
Submit(id) ==
    /\ app.started < MaxStarted
    /\ app' = handleSubmit(app, id)
    /\ UNCHANGED <<serviceVars, pf, appWav>>

\* line 1023: the speech button of the chat entry i
Speak(i) ==
    /\ app.spoken < MaxSpoken
    /\ app' = handleTTS(app, app.chats[i])
    /\ UNCHANGED <<serviceVars, pf, appWav>>

\* the performFetch call of the request i in flight ends with the outcome o;
\* id is what generateId() gives the new chat entry. The Blob of a speech
\* request is reachable through its object URL only and is not read again
Complete(i, o, id) ==
    /\ app' = [complete(app, app.inflight[i], o, id) EXCEPT !.inflight = Without(@, i)]
    /\ UNCHANGED <<serviceVars, pf, appWav>>

\* the audio element fires `ended`
AudioEnded ==
    /\ app.audio.playing
    /\ app' = audioEnded(app)
    /\ UNCHANGED <<serviceVars, pf, appWav>>

Completes ==
    \E i \in 1..Len(app.inflight) :
        \E o \in AppOutcomes(app.inflight[i].kind) : \E id \in Ids : Complete(i, o, id)

NextApp ==
    \/ \E q \in Inputs : Type(q)
    \/ \E tab \in Tabs : SelectTab(tab)
    \/ \E id \in Ids : Submit(id)
    \/ \E i \in 1..Len(app.chats) : Speak(i)
    \/ Completes
    \/ AudioEnded

SpecApp == InitApp /\ [][NextApp]_vars

\* the form alone: the user types, picks a tab and submits, and the requests
\* the form started end
NextForm ==
    \/ \E q \in Inputs : Type(q)
    \/ \E tab \in Tabs : SelectTab(tab)
    \/ \E id \in Ids : Submit(id)
    \/ Completes

SpecForm == InitApp /\ [][NextForm]_vars

(***************************************************************************)
(* Claims about the component                                              *)
(***************************************************************************)
InFlight == app.inflight # <<>>

\* C25: in every state of the component where a generation request (text,
\* image, structured or speech) is in flight, the loading flag is true, under
\* every interleaving of submits, speech requests and completions
C25_LoadingWhileInFlight == InFlight => app.loading

\* how many entries of the chat list are of a kind
Count(chats, kind) == Cardinality({i \in 1..Len(chats) : chats[i].kind = kind})

\* a step in which generateImageContent ran its success branch: only there
\* 10 crown rewards are added (line 707)
ImageSucceeded == app'.crownRewards = app.crownRewards + 10

\* C26: after a successful image response the 'Generating image...'
\* placeholder of the call is replaced by the generated-image record: the chat
\* list has one image record more and one placeholder less
C26_PlaceholderReplaced ==
    [][ImageSucceeded =>
          /\ Count(app'.chats, "image") = Count(app.chats, "image") + 1
          /\ Count(app'.chats, "placeholder") = Count(app.chats, "placeholder") - 1]_vars

\* the same component under the scheduling the browser gives it: a request
\* in flight ends, and audio that plays reaches its end
SpecAppLive == InitApp /\ [][NextApp]_vars /\ WF_vars(Completes) /\ WF_vars(AudioEnded)

\* C27: every object URL created for a synthesized WAV is eventually revoked,
\* also when a second speech request starts before the first playback ended
C27_EveryUrlRevoked ==
    \A u \in 1..MaxSpoken : (u \in app.urls) ~> (u \notin app.urls)

\* what the claim says handleSubmit looks at and does
SubmitIgnored == app.loading \/ trim(app.queryInput) = ""
AsksForItems(query) ==
    \/ includes(toLowerCase(query), "quiz")
    \/ includes(toLowerCase(query), "flashcard")
ExpectedGenerator ==
    CASE app.activeTab = "Images" -> "image"
      [] app.activeTab = "Study" /\ AsksForItems(trim(app.queryInput)) -> "study"
      [] OTHER -> "text"
\* handleSubmit applied to the state the component is in
SubmitAsClaimed ==
    \A id \in Ids :
        LET a == handleSubmit(app, id)
        IN  IF SubmitIgnored
            THEN a = app
            ELSE /\ a.queryInput = ""
                 /\ a.started = app.started + 1
                 /\ a.spoken = app.spoken
                 /\ a.inflight = Append(app.inflight,
                                        Awaiting(ExpectedGenerator, trim(app.queryInput)))
\* a step in which a generator was started from the form
SubmitStarted == app'.started = app.started + 1

====
